---------------------------- MODULE Spec2Model ----------------------------
(***************************************************************************)
(* Helios: the connection registry with session recovery, the per-        *)
(* connection request/response tracker, the health-check fields and the    *)
(* RoomManager subscription indexes.                                       *)
(*                                                                         *)
(* One action is one JavaScript macrotask (a transport event handler, a    *)
(* timer callback, or the continuation of an awaited promise).  A handler  *)
(* that awaits (JWT signing / verification, a room validator) is split at  *)
(* the await: the part before it and the part after it are two actions.    *)
(***************************************************************************)
EXTENDS Integers, FiniteSets, Sequences, TLC

(***************************************************************************)
(* Bounds of the model.                                                    *)
(***************************************************************************)
MaxWs == 2          \* transport handles (ServerWebSocket objects) ever opened
MaxReq == 2         \* calls of Connection.request
MaxTicks == 2       \* clock ticks after the start
MaxRefresh == 2     \* session.refresh requests handled per connection
MaxPings == 2       \* manual Helios.ping calls
MaxMsgs == 2        \* messages the transport delivers per handle
MaxSend == 2        \* send calls
MaxBcast == 1       \* broadcast calls
MaxDecl == 2        \* protected rooms declared

(***************************************************************************)
(* Program constants and configuration values.                             *)
(***************************************************************************)
NULL == 0                   \* JavaScript null / undefined / absent Map key
TTL == 1000                 \* options.sessionRecovery.ttl (milliseconds)
MsPerSecond == 1000         \* JWT exp is in seconds
TickMs == TTL \div 2        \* granularity of the modelled clock
MaxMissed == 2              \* options.healthCheck.maxMissed (default)
HealthInterval == 2 * TickMs \* options.healthCheck.interval
PongTimeoutMs == TickMs     \* options.healthCheck.timeout (shorter than the interval)

WS == 1 .. MaxWs            \* transport handles
ConnIds == WS               \* a Connection is named by the handle it was created for
ReqIds == 1 .. MaxReq       \* request ids, in order of issue
StartTime == TickMs         \* Date.now() when the server starts (any value > 0)
MaxTime == StartTime + MaxTicks * TickMs
\* the clock of the health-check runs: long enough for MaxMissed + 1 ping ticks
HealthMaxTime == MaxTime + MaxMissed * HealthInterval
DataKeys == {"k"}           \* keys handlers put into connection.data
DataValues == {"v"}
\* Topics and patterns are ':'-delimited strings; they are kept as the sequences
\* of their segments ("user:1" is <<"user", "1">>).
Topics == {<<"lobby">>, <<"user", "1">>, <<"news">>}   \* topics clients ask for

VARIABLES
    \* ---- configuration (fixed by the Helios constructor)
    recovery,               \* helios.sessionManager exists (sessionRecovery.enabled)
    \* ---- environment
    now,                    \* Date.now()
    wsPhase,                \* per handle: "idle" (not yet upgraded), "open", "closed"
    tokens,                 \* session tokens the clients hold
    emitted,                \* per handle: the events connection.emit wrote to it, in order
    closeCalls,             \* per handle: the ws.close(code, reason) the server called, if any
    \* ---- Connections (extends Map)
    conns,                  \* Connection objects constructed so far
    connections,            \* Map<ws, Connection>: handle -> connection or NULL
    sessionMap,             \* Map<sessionId, Connection>
    disconnectedSessions,   \* Map<sessionId, {connection, expiresAt}> as a set of entries
    \* ---- Connection fields
    connWs,                 \* connection.ws
    connState,              \* connection.state
    sessionId,              \* connection.sessionId
    lastTokenRefresh,       \* connection.lastTokenRefresh
    data,                   \* connection.data (a Map, as a set of <<key, value>>)
    pendingRequests,        \* connection.pendingRequests (the request ids of its keys)
    \* ---- health-check fields of a Connection
    missedPongs, lastPingAt, lastPongAt, pingIntervalId, pingTimeoutId,
    pingDueAt,              \* when the ping interval timer is due next (NULL: not scheduled)
    nextTimerId,            \* the next handle setInterval / setTimeout returns
    \* ---- awaited promises in flight
    verifying,              \* recoverSession awaiting sessionManager.verify: <<ws, token>>
    creating,               \* createSession awaiting sessionManager.create: <<conn, token>>
    refreshing,             \* per connection: session.refresh handlers awaiting sessionManager.refresh
    refreshReplies,         \* per connection: what its session.refresh handlers returned, in order
    \* ---- requests
    nextReq,                \* the next request id
    req,                    \* per request id: its connection, timer and promise
    listeners,              \* helios.events once-listeners: <<"response" | "error", id>>
    \* ---- RoomManager
    publicRooms,            \* #publicRooms
    roomPatterns,           \* #roomPatterns (sorted by specificity, descending)
    connectionSubscriptions,\* #connectionSubscriptions: connection -> set of topics
    topicConnections,       \* #topicConnections: topic -> set of connections
    validating,             \* subscribe calls suspended in their validator
    subscribeReturn,        \* what the last subscribe call that returned has returned
    declareReturn,          \* how the last declare call ended: "this" or the error it threw
    broadcastReturn,        \* the {targets, sent} of the last broadcast call, n counts the calls
    \* ---- messages in and out of a connection
    sendReturn,             \* how the last send on a connection ended, n counts the calls
    delivered,              \* per handle: how many messages the transport has delivered
    emitting,               \* pre-dispatch events.emit promises that have not resolved yet
    dispatched,             \* per connection: the messages handed to connection.handleMessage
    parseMode,              \* options.parseMode (fixed by the Helios constructor)
    routed,                 \* per handle: what became of each frame that failed to parse
    pings,                  \* per manual ping: its connection, timer and promise
    pongListeners           \* the listeners of 'pong-received' on helios.events

registryVars == <<conns, connections, sessionMap, disconnectedSessions>>
connVars == <<connWs, connState, sessionId, lastTokenRefresh, data, pendingRequests>>
healthVars == <<missedPongs, lastPingAt, lastPongAt, pingIntervalId, pingTimeoutId, pingDueAt,
               nextTimerId>>
refreshVars == <<refreshing, refreshReplies>>
asyncVars == <<verifying, creating, refreshVars>>
reqVars == <<nextReq, req, listeners>>
roomVars == <<publicRooms, roomPatterns, connectionSubscriptions, topicConnections, validating,
              subscribeReturn, declareReturn, broadcastReturn>>
msgVars == <<sendReturn, delivered, emitting, dispatched, parseMode, routed, pings,
             pongListeners>>
envVars == <<recovery, now, wsPhase, tokens, emitted, closeCalls>>
vars == <<envVars, registryVars, connVars, healthVars, asyncVars, reqVars, roomVars, msgVars>>


(***************************************************************************)
(* Session tokens (SessionManager).  A token is the signed JWT payload;    *)
(* exp is in seconds.  BadToken stands for any string that fails the       *)
(* signature check.                                                        *)
(***************************************************************************)
NoToken == [sessionId |-> NULL, connectionId |-> NULL, exp |-> 0, signed |-> FALSE, present |-> FALSE]
BadToken == [sessionId |-> NULL, connectionId |-> NULL, exp |-> 0, signed |-> FALSE, present |-> TRUE]

\* SessionManager.create: the payload signed for connection c at time t
MintToken(c, sid, t) ==
    [sessionId |-> sid, connectionId |-> c, exp |-> (t + TTL) \div MsPerSecond,
     signed |-> TRUE, present |-> TRUE]

\* SessionManager.verify (jose.jwtVerify): the signature matches and exp is
\* later than the current time in whole seconds
Verify(tok, t) == tok.signed /\ tok.exp > t \div MsPerSecond

(***************************************************************************)
(* Pending requests: the promise of one Connection.request call.           *)
(***************************************************************************)
\* ws.close(code, reason) was not called / was called by the health check
NoClose == [code |-> 0, reason |-> ""]
PingTimeoutClose == [code |-> 1000, reason |-> "Ping timeout"]

NoRequest == [conn |-> NULL, timer |-> FALSE, resolves |-> 0, rejects |-> 0, outcome |-> "none"]

\* resolve(response) of the promise: only the first settlement decides it
ResolvePromise(q) ==
    [q EXCEPT !.resolves = @ + 1, !.outcome = IF @ = "pending" THEN "RESPONSE" ELSE @]

\* reject(error) of the promise
RejectPromise(q, err) ==
    [q EXCEPT !.rejects = @ + 1, !.outcome = IF @ = "pending" THEN err ELSE @]

(***************************************************************************)
(* Initial state: a Helios instance right after its constructor, with the  *)
(* rooms of the application declared.                                      *)
(***************************************************************************)
PingIds == 1 .. MaxPings

\* the listener the application registers with helios.events.on('pong-received')
AppListener == 0

\* a manual ping that has not been made; ponged records that a pong of the
\* pinged connection has arrived since the ping was sent
NoPing == [conn |-> NULL, status |-> "none", timer |-> FALSE, ponged |-> FALSE]

\* no send call yet
NoSend == [n |-> 0, state |-> "OPEN", result |-> "true"]

\* nothing sent, nothing delivered
InitMessages ==
    /\ sendReturn = NoSend
    /\ delivered = [w \in WS |-> 0]
    /\ emitting = {}
    /\ dispatched = [c \in ConnIds |-> <<>>]
    /\ routed = [w \in WS |-> <<>>]
    /\ pings = [p \in PingIds |-> NoPing]
    /\ pongListeners = {}

InitRegistry ==
    /\ conns = {}
    /\ connections = [w \in WS |-> NULL]
    /\ sessionMap = [s \in ConnIds |-> NULL]
    /\ disconnectedSessions = {}
    /\ connWs = [c \in ConnIds |-> NULL]
    /\ connState = [c \in ConnIds |-> "NONE"]
    /\ sessionId = [c \in ConnIds |-> NULL]
    /\ lastTokenRefresh = [c \in ConnIds |-> 0]
    /\ data = [c \in ConnIds |-> {}]
    /\ pendingRequests = [c \in ConnIds |-> {}]
    /\ missedPongs = [c \in ConnIds |-> 0]
    /\ lastPingAt = [c \in ConnIds |-> NULL]
    /\ lastPongAt = [c \in ConnIds |-> 0]
    /\ pingIntervalId = [c \in ConnIds |-> NULL]
    /\ pingTimeoutId = [c \in ConnIds |-> NULL]
    /\ pingDueAt = [c \in ConnIds |-> NULL]
    /\ nextTimerId = 1
    /\ verifying = {}
    /\ creating = {}
    /\ refreshing = [c \in ConnIds |-> <<>>]
    /\ refreshReplies = [c \in ConnIds |-> <<>>]
    /\ nextReq = 1
    /\ req = [r \in ReqIds |-> NoRequest]
    /\ listeners = {}
    /\ InitMessages
    /\ wsPhase = [w \in WS |-> "idle"]
    /\ tokens = {}
    /\ emitted = [w \in WS |-> <<>>]
    /\ closeCalls = [w \in WS |-> NoClose]


(***************************************************************************)
(* Health check: Connection.startHealthCheck / stopHealthCheck and the     *)
(* fields the constructor sets.                                            *)
(***************************************************************************)
\* the health-check fields of a freshly constructed Connection c, followed by
\* startHealthCheck() when start is TRUE
HealthOpen(c, start) ==
    /\ missedPongs' = [missedPongs EXCEPT ![c] = 0]
    /\ lastPingAt' = [lastPingAt EXCEPT ![c] = NULL]
    /\ lastPongAt' = [lastPongAt EXCEPT ![c] = now]
    /\ pingTimeoutId' = [pingTimeoutId EXCEPT ![c] = NULL]
    /\ pingIntervalId' = [pingIntervalId EXCEPT ![c] = IF start THEN nextTimerId ELSE NULL]
    /\ pingDueAt' = [pingDueAt EXCEPT ![c] = IF start THEN now + HealthInterval ELSE NULL]
    /\ nextTimerId' = IF start THEN nextTimerId + 1 ELSE nextTimerId

\* A faulty stopHealthCheck that forgets the pong timeout.
StopHealthCheckKeepsTimeout(cs) ==
    /\ pingIntervalId' = [c \in ConnIds |-> IF c \in cs THEN NULL ELSE pingIntervalId[c]]
    /\ pingDueAt' = [c \in ConnIds |-> IF c \in cs THEN NULL ELSE pingDueAt[c]]
    /\ UNCHANGED <<pingTimeoutId, missedPongs, lastPingAt, lastPongAt, nextTimerId>>

\* connection.stopHealthCheck() for every connection of the set cs
StopHealthCheck(cs) ==
    /\ pingIntervalId' = [c \in ConnIds |-> IF c \in cs THEN NULL ELSE pingIntervalId[c]]
    /\ pingTimeoutId' = [c \in ConnIds |-> IF c \in cs THEN NULL ELSE pingTimeoutId[c]]
    /\ pingDueAt' = [c \in ConnIds |-> IF c \in cs THEN NULL ELSE pingDueAt[c]]
    /\ UNCHANGED <<missedPongs, lastPingAt, lastPongAt, nextTimerId>>

(***************************************************************************)
(* Connection and Connections (the registry).                              *)
(***************************************************************************)
\* new Connection(helios, ws) and Connections.new(ws)
ConnectionsNew(w) ==
    /\ conns' = conns \cup {w}
    /\ connections' = [connections EXCEPT ![w] = w]
    /\ connWs' = [connWs EXCEPT ![w] = w]
    /\ connState' = [connState EXCEPT ![w] = "OPEN"]
    /\ lastTokenRefresh' = [lastTokenRefresh EXCEPT ![w] = now]
    /\ data' = [data EXCEPT ![w] = {}]
    /\ pendingRequests' = [pendingRequests EXCEPT ![w] = {}]

\* Helios.createSession up to its await: SessionManager.create assigns the
\* session id and builds the payload before the signature is awaited
CreateSession(c) ==
    IF recovery
    THEN /\ sessionId' = [sessionId EXCEPT ![c] = IF @ = NULL THEN c ELSE @]
         /\ creating' = creating \cup {<<c, MintToken(c, IF sessionId[c] = NULL THEN c ELSE sessionId[c], now)>>}
    ELSE UNCHANGED <<sessionId, creating>>

\* Connections.findBySessionId
FindBySessionId(sid) ==
    IF sessionMap[sid] # NULL
    THEN sessionMap[sid]
    ELSE IF \E e \in disconnectedSessions : e.sessionId = sid /\ now < e.expiresAt
         THEN (CHOOSE e \in disconnectedSessions : e.sessionId = sid).connection
         ELSE NULL

\* A faulty Connection.reconnect that reopens the connection on the handle it
\* had.
ConnectionReconnectSameWs(c, newWs) ==
    /\ connState' = [connState EXCEPT ![c] = "OPEN"]
    /\ UNCHANGED <<connWs, sessionId, lastTokenRefresh, data, pendingRequests>>
    /\ UNCHANGED healthVars

\* A faulty Connection.reconnect that starts from an empty connection: the
\* data and the pending requests are dropped.
ConnectionReconnectFresh(c, newWs) ==
    /\ connWs' = [connWs EXCEPT ![c] = newWs]
    /\ connState' = [connState EXCEPT ![c] = "OPEN"]
    /\ data' = [data EXCEPT ![c] = {}]
    /\ pendingRequests' = [pendingRequests EXCEPT ![c] = {}]
    /\ UNCHANGED <<sessionId, lastTokenRefresh>>
    /\ UNCHANGED healthVars

\* Connection.reconnect(newWs)
ConnectionReconnect(c, newWs) ==
    /\ connWs' = [connWs EXCEPT ![c] = newWs]
    /\ connState' = [connState EXCEPT ![c] = "OPEN"]
    /\ UNCHANGED <<sessionId, lastTokenRefresh, data, pendingRequests>>
    /\ UNCHANGED healthVars

\* A faulty Connections.reconnect that leaves the old handle in the index.
ConnectionsReconnectKeepsOld(sid, newWs) ==
    LET connection == FindBySessionId(sid)
    IN /\ connection # NULL
       /\ disconnectedSessions' = {e \in disconnectedSessions : e.sessionId # sid}
       /\ ConnectionReconnect(connection, newWs)
       /\ connections' = [connections EXCEPT ![newWs] = connection]

\* Connections.reconnect(sessionId, newWs), when findBySessionId found a connection
ConnectionsReconnect(sid, newWs) ==
    LET connection == FindBySessionId(sid)
        oldWs == connWs[connection]
    IN /\ connection # NULL
       /\ disconnectedSessions' = {e \in disconnectedSessions : e.sessionId # sid}
       /\ ConnectionReconnect(connection, newWs)
       /\ connections' = [w \in WS |->
                             IF w = newWs THEN connection
                             ELSE IF w = oldWs THEN NULL
                             ELSE connections[w]]

\* A faulty markDisconnected whose entry expires at once (no ttl added).
MarkDisconnectedNoTtl(w) ==
    LET connection == connections[w]
    IN IF connection = NULL \/ sessionId[connection] = NULL
       THEN UNCHANGED <<connections, disconnectedSessions>>
       ELSE /\ connections' = [connections EXCEPT ![w] = NULL]
            /\ disconnectedSessions' =
                   {e \in disconnectedSessions : e.sessionId # sessionId[connection]}
                   \cup {[sessionId |-> sessionId[connection],
                          connection |-> connection,
                          expiresAt |-> now]}

\* A faulty markDisconnected that leaves the handle in the index.
MarkDisconnectedKeepsIndex(w) ==
    LET connection == connections[w]
    IN IF connection = NULL \/ sessionId[connection] = NULL
       THEN UNCHANGED <<connections, disconnectedSessions>>
       ELSE /\ UNCHANGED connections
            /\ disconnectedSessions' =
                   {e \in disconnectedSessions : e.sessionId # sessionId[connection]}
                   \cup {[sessionId |-> sessionId[connection],
                          connection |-> connection,
                          expiresAt |-> now + TTL]}

\* Connections.markDisconnected(ws)
MarkDisconnected(w) ==
    LET connection == connections[w]
    IN IF connection = NULL \/ sessionId[connection] = NULL
       THEN UNCHANGED <<connections, disconnectedSessions>>
       ELSE /\ connections' = [connections EXCEPT ![w] = NULL]
            /\ disconnectedSessions' =
                   {e \in disconnectedSessions : e.sessionId # sessionId[connection]}
                   \cup {[sessionId |-> sessionId[connection],
                          connection |-> connection,
                          expiresAt |-> now + TTL]}


(***************************************************************************)
(* Connection.request and the three ways its promise is settled.           *)
(***************************************************************************)
\* A faulty listener whose cleanup() leaves the other listener registered: only
\* the once-listener that ran is gone.
SettleRequestKeepsListener(r, how) ==
    /\ req' = [req EXCEPT ![r] =
                  IF how = "RESPONSE"
                  THEN ResolvePromise([@ EXCEPT !.timer = FALSE])
                  ELSE RejectPromise([@ EXCEPT !.timer = FALSE], how)]
    /\ listeners' = listeners \ {<<(IF how = "RESPONSE" THEN "response" ELSE "error"), r>>}
    /\ pendingRequests' = [pendingRequests EXCEPT ![req[r].conn] = @ \ {r}]

\* The once-listener of `response:r` (how = "RESPONSE") or `error:r`: it calls
\* cleanup() -- clearTimeout, both listeners off, pendingRequests.delete -- and
\* then resolves or rejects the promise.
SettleRequest(r, how) ==
    /\ req' = [req EXCEPT ![r] =
                  IF how = "RESPONSE"
                  THEN ResolvePromise([@ EXCEPT !.timer = FALSE])
                  ELSE RejectPromise([@ EXCEPT !.timer = FALSE], how)]
    /\ listeners' = {l \in listeners : l[2] # r}
    /\ pendingRequests' = [pendingRequests EXCEPT ![req[r].conn] = @ \ {r}]

\* helios.events.emit(`response:r`) / emit(`error:r`): runs the listener if one
\* is still registered
EmitToRequest(r, how) ==
    IF <<(IF how = "RESPONSE" THEN "response" ELSE "error"), r>> \in listeners
    THEN SettleRequest(r, how)
    ELSE UNCHANGED <<req, listeners, pendingRequests>>

\* connection.request(method, payload): the application calls it on any
\* Connection object it holds.  On a connection that is not OPEN it returns
\* Promise.reject(ConnectionClosedError) and touches nothing: no request id is
\* drawn and no promise of the tracker is created.
ConnectionRequest(c) ==
    /\ c \in conns
    /\ nextReq <= MaxReq
    /\ IF connState[c] # "OPEN"
       THEN UNCHANGED <<nextReq, req, listeners, pendingRequests>>
       ELSE /\ nextReq' = nextReq + 1
            /\ req' = [req EXCEPT ![nextReq] =
                          [conn |-> c, timer |-> TRUE, resolves |-> 0, rejects |-> 0,
                           outcome |-> "pending"]]
            /\ pendingRequests' = [pendingRequests EXCEPT ![c] = @ \cup {nextReq}]
            /\ listeners' = listeners \cup {<<"response", nextReq>>, <<"error", nextReq>>}
    /\ UNCHANGED <<envVars, registryVars, connWs, connState, sessionId, lastTokenRefresh,
                   data, healthVars, asyncVars, roomVars, msgVars>>

\* The setTimeout callback of request r fires (one shot).
RequestTimeout(r) ==
    /\ req[r].timer
    /\ IF connections[connWs[req[r].conn]] # NULL
       THEN IF <<"error", r>> \in listeners
            THEN SettleRequest(r, "TIMEOUT")
            ELSE /\ req' = [req EXCEPT ![r].timer = FALSE]
                 /\ UNCHANGED <<listeners, pendingRequests>>
       ELSE /\ req' = [req EXCEPT ![r].timer = FALSE]
            /\ UNCHANGED <<listeners, pendingRequests>>
    /\ UNCHANGED <<envVars, registryVars, connWs, connState, sessionId, lastTokenRefresh,
                   data, healthVars, asyncVars, nextReq, roomVars, msgVars>>

\* Helios.handleMessage(ws, raw) for a frame that parses as a Response with
\* requestId r, then Connection.handleResponse
HandleResponse(w, r) ==
    /\ wsPhase[w] = "open"
    /\ LET connection == connections[w]
       IN IF connection = NULL
          THEN UNCHANGED <<req, listeners, pendingRequests>>
          ELSE IF connState[connection] \in {"CLOSING", "CLOSED"}
               THEN UNCHANGED <<req, listeners, pendingRequests>>
               ELSE EmitToRequest(r, "RESPONSE")
    /\ UNCHANGED <<envVars, registryVars, connWs, connState, sessionId, lastTokenRefresh,
                   data, healthVars, asyncVars, nextReq, roomVars, msgVars>>

\* Helios.handleMessage(ws, raw) for a Request whose method handler stores
\* value v under key k in context.connection.data
HandleRequest(w, k, v) ==
    /\ wsPhase[w] = "open"
    /\ connections[w] # NULL
    /\ data' = [data EXCEPT ![connections[w]] = {d \in @ : d[1] # k} \cup {<<k, v>>}]
    /\ UNCHANGED <<envVars, registryVars, connWs, connState, sessionId, lastTokenRefresh,
                   pendingRequests, healthVars, asyncVars, reqVars, roomVars, msgVars>>


(***************************************************************************)
(* RoomManager.  A Map is a function whose DOMAIN is its set of keys.      *)
(***************************************************************************)
MapSet(m, k, v) == [x \in (DOMAIN m) \cup {k} |-> IF x = k THEN v ELSE m[x]]
MapDelete(m, k) == [x \in (DOMAIN m) \ {k} |-> m[x]]
EmptyMap == [x \in {} |-> {}]

\* CapturePatternMatcher.match(topic, pattern): '*' is one segment, '**' is
\* zero or more trailing segments, '++' is one or more segments
RECURSIVE Match(_, _)
Match(topic, pattern) ==
    IF pattern = <<>> THEN topic = <<>>
    ELSE IF Head(pattern) = "**" THEN TRUE
    ELSE IF topic = <<>> THEN FALSE
    ELSE IF Head(pattern) = "++"
         THEN \E n \in 1 .. Len(topic) : Match(SubSeq(topic, n + 1, Len(topic)), Tail(pattern))
    ELSE IF Head(pattern) = "*" \/ Head(pattern) = Head(topic)
         THEN Match(Tail(topic), Tail(pattern))
    ELSE FALSE

NoRoom == [type |-> "none", pattern |-> <<>>]

\* RoomManager.#findRoomConfig(topic)
FindRoomConfig(topic) ==
    IF topic \in publicRooms
    THEN [type |-> "public", pattern |-> topic]
    ELSE IF \E i \in 1 .. Len(roomPatterns) : Match(topic, roomPatterns[i].pattern)
         THEN LET i == CHOOSE j \in 1 .. Len(roomPatterns) :
                           /\ Match(topic, roomPatterns[j].pattern)
                           /\ \A h \in 1 .. (j - 1) : ~Match(topic, roomPatterns[h].pattern)
              IN [type |-> roomPatterns[i].type, pattern |-> roomPatterns[i].pattern]
         ELSE NoRoom

\* A faulty #addSubscription that records the topic of the connection only.
AddSubscriptionOneSided(c, t) ==
    /\ connectionSubscriptions' =
           MapSet(connectionSubscriptions, c,
                  (IF c \in DOMAIN connectionSubscriptions
                   THEN connectionSubscriptions[c] ELSE {}) \cup {t})
    /\ UNCHANGED topicConnections

\* RoomManager.#addSubscription(connection, topic)
AddSubscription(c, t) ==
    /\ connectionSubscriptions' =
           MapSet(connectionSubscriptions, c,
                  (IF c \in DOMAIN connectionSubscriptions
                   THEN connectionSubscriptions[c] ELSE {}) \cup {t})
    /\ topicConnections' =
           MapSet(topicConnections, t,
                  (IF t \in DOMAIN topicConnections
                   THEN topicConnections[t] ELSE {}) \cup {c})

\* RoomManager.#removeSubscription(connection, topic)
RemoveSubscription(c, t) ==
    IF c \notin DOMAIN connectionSubscriptions
    THEN UNCHANGED <<connectionSubscriptions, topicConnections>>
    ELSE /\ connectionSubscriptions' =
                IF connectionSubscriptions[c] \ {t} = {}
                THEN MapDelete(connectionSubscriptions, c)
                ELSE MapSet(connectionSubscriptions, c, connectionSubscriptions[c] \ {t})
         /\ topicConnections' =
                IF t \notin DOMAIN topicConnections
                THEN topicConnections
                ELSE IF topicConnections[t] \ {c} = {}
                     THEN MapDelete(topicConnections, t)
                     ELSE MapSet(topicConnections, t, topicConnections[t] \ {c})

\* no subscribe call has returned yet
NoReturn == [topic |-> <<>>, success |-> FALSE, error |-> "", validator |-> "", event |-> FALSE]

\* the {success, error} of subscribe(connection, topic): validator is what the
\* room's validator answered ("" when none ran), event is whether the call
\* emitted room:subscribed
SubscribeReturn(t, success, error, validator) ==
    [topic |-> t, success |-> success, error |-> error, validator |-> validator,
     event |-> success]

\* A faulty subscribe that lets undeclared topics in.
SubscribeAllowByDefault(c, t) ==
    /\ c \in conns
    /\ LET roomConfig == FindRoomConfig(t)
       IN IF roomConfig.type = "protected"
          THEN /\ validating' = validating \cup {<<c, t>>}
               /\ UNCHANGED <<connectionSubscriptions, topicConnections, subscribeReturn>>
          ELSE /\ AddSubscription(c, t)
               /\ subscribeReturn' = SubscribeReturn(t, TRUE, "", "")
               /\ UNCHANGED validating
    /\ UNCHANGED <<envVars, registryVars, connVars, healthVars, asyncVars, reqVars,
                   publicRooms, roomPatterns, declareReturn, broadcastReturn, msgVars>>

\* RoomManager.subscribe(connection, topic) up to the await of the validator;
\* a public room has no validator and is added at once
Subscribe(c, t) ==
    /\ c \in conns
    /\ LET roomConfig == FindRoomConfig(t)
       IN IF roomConfig.type = "none"
          THEN /\ subscribeReturn' =
                      SubscribeReturn(t, FALSE, "Room not declared (deny by default)", "")
               /\ UNCHANGED <<connectionSubscriptions, topicConnections, validating>>
          ELSE IF roomConfig.type = "protected"
               THEN /\ validating' = validating \cup {<<c, t>>}
                    /\ UNCHANGED <<connectionSubscriptions, topicConnections, subscribeReturn>>
               ELSE /\ AddSubscription(c, t)
                    /\ subscribeReturn' = SubscribeReturn(t, TRUE, "", "")
                    /\ UNCHANGED validating
    /\ UNCHANGED <<envVars, registryVars, connVars, healthVars, asyncVars, reqVars,
                   publicRooms, roomPatterns, declareReturn, broadcastReturn, msgVars>>

\* A faulty subscribe that ignores what the validator answered.
SubscribeValidatedAlways(c, t, allowed) ==
    /\ <<c, t>> \in validating
    /\ validating' = validating \ {<<c, t>>}
    /\ AddSubscription(c, t)
    /\ subscribeReturn' = SubscribeReturn(t, TRUE, "", allowed)
    /\ UNCHANGED <<envVars, registryVars, connVars, healthVars, asyncVars, reqVars,
                   publicRooms, roomPatterns, declareReturn, broadcastReturn, msgVars>>

\* RoomManager.subscribe after the validator settled: allowed is what it
\* returned, or "throw" when it threw or rejected
SubscribeValidated(c, t, allowed) ==
    /\ <<c, t>> \in validating
    /\ validating' = validating \ {<<c, t>>}
    /\ IF allowed = "true"
       THEN /\ AddSubscription(c, t)
            /\ subscribeReturn' = SubscribeReturn(t, TRUE, "", allowed)
       ELSE /\ subscribeReturn' =
                   SubscribeReturn(t, FALSE,
                                   IF allowed = "false" THEN "Permission denied"
                                   ELSE "Validator error", allowed)
            /\ UNCHANGED <<connectionSubscriptions, topicConnections>>
    /\ UNCHANGED <<envVars, registryVars, connVars, healthVars, asyncVars, reqVars,
                   publicRooms, roomPatterns, declareReturn, broadcastReturn, msgVars>>

\* RoomManager.unsubscribe(connection, topic)
Unsubscribe(c, t) ==
    /\ c \in conns
    /\ RemoveSubscription(c, t)
    /\ UNCHANGED <<envVars, registryVars, connVars, healthVars, asyncVars, reqVars,
                   publicRooms, roomPatterns, declareReturn, broadcastReturn, validating, subscribeReturn, msgVars>>

\* A faulty cleanup that forgets the topic index.
CleanupKeepsTopics(c) ==
    /\ c \in conns
    /\ IF c \notin DOMAIN connectionSubscriptions
       THEN UNCHANGED <<connectionSubscriptions, topicConnections>>
       ELSE /\ UNCHANGED topicConnections
            /\ connectionSubscriptions' = MapDelete(connectionSubscriptions, c)
    /\ UNCHANGED <<envVars, registryVars, connVars, healthVars, asyncVars, reqVars,
                   publicRooms, roomPatterns, declareReturn, broadcastReturn, validating,
                   subscribeReturn, msgVars>>

\* RoomManager.cleanup(connection)
Cleanup(c) ==
    /\ c \in conns
    /\ IF c \notin DOMAIN connectionSubscriptions
       THEN UNCHANGED <<connectionSubscriptions, topicConnections>>
       ELSE /\ topicConnections' =
                   [t \in {u \in DOMAIN topicConnections :
                              ~(u \in connectionSubscriptions[c] /\ topicConnections[u] \ {c} = {})}
                      |-> IF t \in connectionSubscriptions[c]
                          THEN topicConnections[t] \ {c}
                          ELSE topicConnections[t]]
            /\ connectionSubscriptions' = MapDelete(connectionSubscriptions, c)
    /\ UNCHANGED <<envVars, registryVars, connVars, healthVars, asyncVars, reqVars,
                   publicRooms, roomPatterns, declareReturn, broadcastReturn, validating, subscribeReturn, msgVars>>

\* the patterns the application declares: exact topics, patterns with
\* wildcards, and the empty string
\* no broadcast call yet
NoBroadcast == [n |-> 0, topic |-> <<>>, targets |-> 0, sent |-> 0]

DeclPatterns == {<<"lobby">>, <<"user", "1">>, <<"user", "*">>, <<"*", "1">>, <<"user", "**">>, <<>>}

\* the arguments of declare calls: every pattern as a public and as a
\* protected room, with and without a validator, and a pattern argument that
\* is not a string
DeclInputs ==
    [pattern : DeclPatterns, isString : {TRUE}, type : {"public", "protected"},
     validator : BOOLEAN]
    \cup [pattern : {<<"lobby">>}, isString : {FALSE}, type : {"public", "protected"},
          validator : {TRUE}]

\* pattern.includes('*') || pattern.includes('+')
HasWildcard(pattern) == \E i \in 1 .. Len(pattern) : pattern[i] \in {"*", "**", "++"}

\* CapturePatternMatcher.calculateSpecificity(pattern): a literal segment
\* counts more than '*', '*' more than '++', and '**' counts nothing
RECURSIVE Specificity(_)
Specificity(pattern) ==
    IF pattern = <<>> THEN 0
    ELSE (IF Head(pattern) = "**" THEN 0
          ELSE IF Head(pattern) = "++" THEN 1
          ELSE IF Head(pattern) = "*" THEN 2
          ELSE 3) + Specificity(Tail(pattern))

\* the entry declare pushes; declared numbers the protected declarations
RoomPattern(pattern, n) ==
    [pattern |-> pattern, type |-> "protected", specificity |-> Specificity(pattern),
     declared |-> n]

\* A faulty sort that leaves the array in declaration order.
NoSort(s) == s

\* Array.prototype.sort((a, b) => b.specificity - a.specificity): stable,
\* descending
RECURSIVE SortBySpecificity(_)
SortBySpecificity(s) ==
    IF s = <<>> THEN <<>>
    ELSE LET sorted == SortBySpecificity(SubSeq(s, 1, Len(s) - 1))
             x == s[Len(s)]
             k == Cardinality({i \in 1 .. Len(sorted) : sorted[i].specificity >= x.specificity})
         IN SubSeq(sorted, 1, k) \o <<x>> \o SubSeq(sorted, k + 1, Len(sorted))

\* A faulty validation that lets wildcards into public rooms.
DeclareResultLax(pattern, isString, type, validator) ==
    IF ~isString \/ pattern = <<>>
    THEN "Pattern must be a non-empty string"
    ELSE IF type = "protected" /\ ~validator
         THEN "Protected rooms require a validator"
         ELSE "this"

\* how declare(pattern, {type, validator}) ends: the message of the
\* ValidationError it throws, or "this"
DeclareResult(pattern, isString, type, validator) ==
    IF ~isString \/ pattern = <<>>
    THEN "Pattern must be a non-empty string"
    ELSE IF type = "protected" /\ ~validator
         THEN "Protected rooms require a validator"
         ELSE IF type = "public" /\ HasWildcard(pattern)
              THEN "Public rooms cannot use wildcards"
              ELSE "this"

\* the declare calls that throw
InvalidDeclarations ==
    {d \in DeclInputs : DeclareResult(d.pattern, d.isString, d.type, d.validator) # "this"}

\* RoomManager.declare(pattern, {type, validator}); isString is whether the
\* pattern argument is a string, validator whether a validator is given
Declare(pattern, isString, type, validator) ==
    /\ declareReturn' = DeclareResult(pattern, isString, type, validator)
    /\ UNCHANGED broadcastReturn
    /\ IF DeclareResult(pattern, isString, type, validator) # "this"
       THEN UNCHANGED <<publicRooms, roomPatterns>>
       ELSE IF type = "public"
            THEN /\ publicRooms' = publicRooms \cup {pattern}
                 /\ UNCHANGED roomPatterns
            ELSE /\ Len(roomPatterns) < MaxDecl
                 /\ roomPatterns' =
                        SortBySpecificity(Append(roomPatterns,
                                                 RoomPattern(pattern, Len(roomPatterns) + 1)))
                 /\ UNCHANGED publicRooms
    /\ UNCHANGED <<envVars, registryVars, connVars, healthVars, asyncVars, reqVars,
                   connectionSubscriptions, topicConnections, validating, subscribeReturn,
                   msgVars>>

\* the rooms the application declared before serving:
\* room("lobby", {type: "public"}) and room("user:*", {validator})
InitRooms ==
    /\ publicRooms = {<<"lobby">>}
    /\ roomPatterns = <<RoomPattern(<<"user", "*">>, 1)>>
    /\ connectionSubscriptions = EmptyMap
    /\ topicConnections = EmptyMap
    /\ validating = {}
    /\ subscribeReturn = NoReturn
    /\ declareReturn = "this"
    /\ broadcastReturn = NoBroadcast


(***************************************************************************)
(* Helios: the transport event handlers.                                   *)
(***************************************************************************)
\* connection.emit(topic, ...): the event is written to the handle the
\* connection holds at that moment
EmitTo(w, topic, sid, reason) ==
    [emitted EXCEPT ![w] = Append(@, [topic |-> topic, sessionId |-> sid, reason |-> reason])]

\* websocket.message(ws, message): the transport delivers the next message of
\* handle w and the handler starts events.emit("message", ...), whose promise
\* resolves when the listeners of the application are done
WebsocketMessage(w) ==
    /\ wsPhase[w] = "open"
    /\ delivered[w] < MaxMsgs
    /\ delivered' = [delivered EXCEPT ![w] = @ + 1]
    /\ emitting' = emitting \cup {[ws |-> w, msg |-> delivered[w] + 1, stage |-> "message",
                                    connection |-> NULL]}
    /\ UNCHANGED <<envVars, registryVars, connVars, healthVars, asyncVars, reqVars, roomVars,
                   sendReturn, dispatched, parseMode, routed, pings, pongListeners>>

\* The emit("message") promise of message m of handle w resolves:
\* Helios.handleMessage(ws, raw) looks the connection up, parses the message
\* and starts events.emit(message.type, ...); without a connection the
\* message is dropped with a warning.
HandleMessage(w, m) ==
    LET e == [ws |-> w, msg |-> m, stage |-> "message", connection |-> NULL]
    IN /\ e \in emitting
       /\ emitting' = IF connections[w] = NULL
                      THEN emitting \ {e}
                      ELSE (emitting \ {e})
                           \cup {[e EXCEPT !.stage = "type", !.connection = connections[w]]}
       /\ UNCHANGED <<envVars, registryVars, connVars, healthVars, asyncVars, reqVars,
                      roomVars, sendReturn, delivered, dispatched, parseMode, routed, pings, pongListeners>>

\* The emit(message.type) promise resolves: connection.handleMessage(message)
\* runs on the connection that handleMessage had looked up.
ConnectionHandleMessage(w, m, c) ==
    LET e == [ws |-> w, msg |-> m, stage |-> "type", connection |-> c]
    IN /\ e \in emitting
       /\ emitting' = emitting \ {e}
       /\ dispatched' = [dispatched EXCEPT ![c] =
                             Append(@, [ws |-> w, msg |-> m, state |-> connState[c]])]
       /\ UNCHANGED <<envVars, registryVars, connVars, healthVars, asyncVars, reqVars,
                      roomVars, sendReturn, delivered, parseMode, routed, pings, pongListeners>>

\* Helios.ping(connection) on an open connection: a once-listener of
\* 'pong-received' is registered, the 10 s timer is armed, the ping is sent
HeliosPing(c) ==
    /\ c \in conns
    /\ connState[c] = "OPEN"
    /\ \E p \in PingIds :
           /\ pings[p].status = "none"
           /\ \A q \in PingIds : q < p => pings[q].status # "none"
           /\ pings' = [pings EXCEPT ![p] = [conn |-> c, status |-> "pending",
                                             timer |-> TRUE, ponged |-> FALSE]]
           /\ pongListeners' = pongListeners \cup {p}
    /\ UNCHANGED <<envVars, registryVars, connVars, healthVars, asyncVars, reqVars, roomVars,
                   sendReturn, delivered, emitting, dispatched, parseMode, routed>>

\* The application registers a listener: helios.events.on('pong-received', ...)
OnPongReceived ==
    /\ AppListener \notin pongListeners
    /\ pongListeners' = pongListeners \cup {AppListener}
    /\ UNCHANGED <<envVars, registryVars, connVars, healthVars, asyncVars, reqVars, roomVars,
                   sendReturn, delivered, emitting, dispatched, parseMode, routed, pings>>

\* 'pong-received' is emitted for the connection of handle w.  Every listener
\* registered runs; the handler of a manual ping is a once-listener, so it is
\* removed whether or not the pong is of its connection, and when it is, its
\* cleanup() calls events.off('pong-received') and clears its timer before the
\* promise resolves.  off is given no handler: the event bus is a dependency,
\* so the call removes either every listener of the event or none.
PongReceived(w) ==
    /\ wsPhase[w] = "open"
    /\ connections[w] # NULL
    /\ LET connection == connections[w]
           invoked == pongListeners \cap PingIds
           matching == {p \in invoked : pings[p].conn = connection}
       IN /\ pings' = [p \in PingIds |->
                          IF p \in matching
                          THEN [pings[p] EXCEPT !.status = "resolved", !.timer = FALSE,
                                                !.ponged = TRUE]
                          ELSE IF pings[p].status = "pending" /\ pings[p].conn = connection
                               THEN [pings[p] EXCEPT !.ponged = TRUE]
                               ELSE pings[p]]
          /\ \E offAll \in BOOLEAN :
                 pongListeners' = IF matching # {} /\ offAll THEN {}
                                  ELSE pongListeners \ invoked
    /\ UNCHANGED <<envVars, registryVars, connVars, healthVars, asyncVars, reqVars, roomVars,
                   sendReturn, delivered, emitting, dispatched, parseMode, routed>>

\* The 10 s timer of manual ping p fires: cleanup(), then the promise rejects.
ManualPingTimeout(p) ==
    /\ pings[p].timer
    /\ pings' = [pings EXCEPT ![p] = [@ EXCEPT !.status = "rejected", !.timer = FALSE]]
    /\ \E offAll \in BOOLEAN :
           pongListeners' = IF offAll THEN {} ELSE pongListeners
    /\ UNCHANGED <<envVars, registryVars, connVars, healthVars, asyncVars, reqVars, roomVars,
                   sendReturn, delivered, emitting, dispatched, parseMode, routed>>

\* options.parseMode
ParseModes == {"strict", "permissive", "passthrough"}

\* frames that Parser.parse rejects with a ProtocolError: a text frame that
\* is JSON, a text frame that is not, a binary frame
MalformedFrames == {"json", "text", "binary"}

\* The catch block of Helios.handleMessage for a ProtocolError: the error is
\* thrown again, or the event of that name is emitted, or nothing happens.
ParseFailure(mode, frame) ==
    IF mode = "strict" THEN "throw"
    ELSE IF mode = "permissive"
         THEN (IF frame = "binary" THEN "binary"
               ELSE IF frame = "json" THEN "json" ELSE "text")
         ELSE "none"

\* Helios.handleMessage(ws, raw) for a frame that Parser.parse rejects
HandleMalformed(w, frame) ==
    /\ wsPhase[w] = "open"
    /\ connections[w] # NULL
    /\ Len(routed[w]) < MaxMsgs
    /\ routed' = [routed EXCEPT ![w] =
                     Append(@, [frame |-> frame, event |-> ParseFailure(parseMode, frame)])]
    /\ UNCHANGED <<envVars, registryVars, connVars, healthVars, asyncVars, reqVars, roomVars,
                   sendReturn, delivered, emitting, dispatched, parseMode, pings,
                   pongListeners>>

\* Connection.send(message) with a valid message, which json, text, binary and
\* emit all end in: ws.send is called whatever connection.state is, and the
\* call returns true, or false when ws.send threw.  A closed socket takes
\* nothing, and whether its ws.send throws is up to the runtime.
ConnectionSend(c) ==
    /\ c \in conns
    /\ sendReturn.n < MaxSend
    /\ LET w == connWs[c]
       IN IF wsPhase[w] = "open"
          THEN /\ emitted' = EmitTo(w, "message", NULL, "")
               /\ sendReturn' = [n |-> sendReturn.n + 1, state |-> connState[c],
                                 result |-> "true"]
          ELSE /\ UNCHANGED emitted
               /\ \E result \in {"true", "false"} :
                      sendReturn' = [n |-> sendReturn.n + 1, state |-> connState[c],
                                     result |-> result]
    /\ UNCHANGED <<recovery, now, wsPhase, tokens, closeCalls, registryVars, connVars,
                   healthVars, asyncVars, reqVars, roomVars, delivered, emitting, dispatched,
                   parseMode, routed, pings, pongListeners>>

\* what broadcast is called with: an exact topic, patterns, a topic nobody
\* can be subscribed to
BroadcastPatterns == {<<"lobby">>, <<"user", "*">>, <<"**">>, <<"news">>}

\* the Set `targets` that RoomManager.broadcast collects
BroadcastTargets(topicOrPattern) ==
    (IF topicOrPattern \in DOMAIN topicConnections
     THEN topicConnections[topicOrPattern] ELSE {})
    \cup {conn \in DOMAIN connectionSubscriptions :
             \E topic \in connectionSubscriptions[conn] : Match(topic, topicOrPattern)}

\* A faulty broadcast that does not look at the state of its targets.
BroadcastToAll(topicOrPattern) ==
    /\ broadcastReturn.n < MaxBcast
    /\ LET targets == BroadcastTargets(topicOrPattern)
       IN /\ emitted' = [w \in WS |->
                            IF \E conn \in targets : connWs[conn] = w
                            THEN EmitTo(w, topicOrPattern, NULL, "")[w]
                            ELSE emitted[w]]
          /\ broadcastReturn' = [n |-> broadcastReturn.n + 1, topic |-> topicOrPattern,
                                 targets |-> Cardinality(targets),
                                 sent |-> Cardinality(targets)]
    /\ UNCHANGED <<recovery, now, wsPhase, tokens, closeCalls, registryVars, connVars,
                   healthVars, asyncVars, reqVars, publicRooms, roomPatterns,
                   connectionSubscriptions, topicConnections, validating, subscribeReturn,
                   declareReturn, msgVars>>

\* RoomManager.broadcast(topicOrPattern, data): conn.emit writes the event to
\* the handle of every target whose state is OPEN
Broadcast(topicOrPattern) ==
    /\ broadcastReturn.n < MaxBcast
    /\ LET targets == BroadcastTargets(topicOrPattern)
           open == {conn \in targets : connState[conn] = "OPEN"}
       IN /\ emitted' = [w \in WS |->
                            IF \E conn \in open : connWs[conn] = w
                            THEN EmitTo(w, topicOrPattern, NULL, "")[w]
                            ELSE emitted[w]]
          /\ broadcastReturn' = [n |-> broadcastReturn.n + 1, topic |-> topicOrPattern,
                                 targets |-> Cardinality(targets),
                                 sent |-> Cardinality(open)]
    /\ UNCHANGED <<recovery, now, wsPhase, tokens, closeCalls, registryVars, connVars,
                   healthVars, asyncVars, reqVars, publicRooms, roomPatterns,
                   connectionSubscriptions, topicConnections, validating, subscribeReturn,
                   declareReturn, msgVars>>

\* A faulty createNewSession that does not tell the client why.
CreateNewSessionSilent(w, reason) ==
    /\ ConnectionsNew(w)
    /\ UNCHANGED emitted
    /\ CreateSession(w)
    /\ HealthOpen(w, FALSE)
    /\ UNCHANGED <<sessionMap, disconnectedSessions>>

\* Helios.createNewSession(ws, reason): the fallback of a failed recovery
CreateNewSession(w, reason) ==
    /\ ConnectionsNew(w)
    /\ emitted' = EmitTo(w, "session:recovery-failed", NULL, reason)
    /\ CreateSession(w)
    /\ HealthOpen(w, FALSE)
    /\ UNCHANGED <<sessionMap, disconnectedSessions>>

\* Helios.handleOpen(ws); tok is the session_token of the upgrade URL.
\* Handles are interchangeable, so they are opened in increasing order.
HandleOpen(w, tok) ==
    /\ wsPhase[w] = "idle"
    /\ \A v \in WS : v < w => wsPhase[v] # "idle"
    /\ wsPhase' = [wsPhase EXCEPT ![w] = "open"]
    /\ IF recovery /\ tok.present
       THEN /\ verifying' = verifying \cup {<<w, tok>>}
            /\ UNCHANGED <<registryVars, connVars, healthVars, creating>>
       ELSE /\ ConnectionsNew(w)
            /\ CreateSession(w)
            /\ HealthOpen(w, TRUE)
            /\ UNCHANGED <<sessionMap, disconnectedSessions, verifying>>
    /\ UNCHANGED <<recovery, now, tokens, emitted, closeCalls, refreshVars, reqVars, roomVars, msgVars>>

\* A faulty recoverSession that never rebinds: every token gets a new session.
RecoverSessionAlwaysNew(w, tok) ==
    /\ <<w, tok>> \in verifying
    /\ verifying' = verifying \ {<<w, tok>>}
    /\ CreateNewSession(w, "Session expired")
    /\ UNCHANGED <<recovery, now, wsPhase, tokens, closeCalls, refreshVars, reqVars, roomVars, msgVars>>

\* Helios.recoverSession(token, ws) after `await sessionManager.verify(token)`
RecoverSession(w, tok) ==
    /\ <<w, tok>> \in verifying
    /\ verifying' = verifying \ {<<w, tok>>}
    /\ IF ~Verify(tok, now)
       THEN CreateNewSession(w, "Invalid token")
       ELSE IF FindBySessionId(tok.sessionId) = NULL
            THEN CreateNewSession(w, "Session expired")
            ELSE /\ ConnectionsReconnect(tok.sessionId, w)
                 /\ emitted' = EmitTo(w, "session:recovered", tok.sessionId, "")
                 /\ UNCHANGED <<conns, sessionMap, creating>>
    /\ UNCHANGED <<recovery, now, wsPhase, tokens, closeCalls, refreshVars, reqVars, roomVars, msgVars>>

\* Helios.createSession(connection) after `await sessionManager.create(connection)`:
\* the session is indexed and the token is sent to the client
CreateSessionDone(c, tok) ==
    /\ <<c, tok>> \in creating
    /\ creating' = creating \ {<<c, tok>>}
    /\ sessionMap' = [sessionMap EXCEPT ![sessionId[c]] = c]
    /\ tokens' = IF wsPhase[connWs[c]] = "open" THEN tokens \cup {tok} ELSE tokens
    /\ emitted' = EmitTo(connWs[c], "session:created", tok.sessionId, "")
    /\ UNCHANGED <<recovery, now, wsPhase, closeCalls, conns, connections, disconnectedSessions,
                   connVars, healthVars, verifying, refreshVars, reqVars, roomVars, msgVars>>

\* A faulty teardown that empties the map without rejecting anything.
RejectPendingForgets(c) ==
    /\ req' = [r \in ReqIds |->
                  IF r \in pendingRequests[c] THEN [req[r] EXCEPT !.timer = FALSE] ELSE req[r]]
    /\ listeners' = {l \in listeners : l[2] \notin pendingRequests[c]}
    /\ pendingRequests' = [pendingRequests EXCEPT ![c] = {}]

\* A faulty teardown that rejects without clearing the request timers.
RejectPendingKeepsTimer(c) ==
    /\ req' = [r \in ReqIds |->
                  IF r \in pendingRequests[c]
                  THEN RejectPromise(req[r], "CONNECTION_CLOSED")
                  ELSE req[r]]
    /\ listeners' = {l \in listeners : l[2] \notin pendingRequests[c]}
    /\ pendingRequests' = [pendingRequests EXCEPT ![c] = {}]

\* Helios.handleClose, no session recovery, step 1: every pending request has
\* its timer cleared, its cleanup() run and its promise rejected
RejectPending(c) ==
    /\ req' = [r \in ReqIds |->
                  IF r \in pendingRequests[c]
                  THEN RejectPromise([req[r] EXCEPT !.timer = FALSE], "CONNECTION_CLOSED")
                  ELSE req[r]]
    /\ listeners' = {l \in listeners : l[2] \notin pendingRequests[c]}
    /\ pendingRequests' = [pendingRequests EXCEPT ![c] = {}]

\* Helios.handleClose(ws, code, reason)
HandleClose(w) ==
    /\ wsPhase[w] = "open"
    /\ wsPhase' = [wsPhase EXCEPT ![w] = "closed"]
    /\ LET connection == connections[w]
       IN IF connection = NULL
          THEN UNCHANGED <<registryVars, connVars, healthVars, reqVars>>
          ELSE IF recovery /\ sessionId[connection] # NULL
               THEN /\ StopHealthCheck({connection})
                    /\ MarkDisconnected(w)
                    /\ connState' = [connState EXCEPT ![connection] = "CLOSED"]
                    /\ UNCHANGED <<conns, sessionMap, connWs, sessionId, lastTokenRefresh,
                                   data, pendingRequests, req, listeners, nextReq>>
               ELSE /\ StopHealthCheck({connection})
                    /\ RejectPending(connection)
                    /\ data' = [data EXCEPT ![connection] = {}]
                    /\ connState' = [connState EXCEPT ![connection] = "CLOSED"]
                    /\ connections' = [connections EXCEPT ![w] = NULL]
                    /\ UNCHANGED <<conns, sessionMap, disconnectedSessions, connWs,
                                   sessionId, lastTokenRefresh, nextReq>>
    /\ UNCHANGED <<recovery, now, tokens, emitted, closeCalls, asyncVars, roomVars, msgVars>>

\* A faulty sweep that keeps an entry at the instant it expires.
SweepLate ==
    LET expired == {e \in disconnectedSessions : now > e.expiresAt}
    IN /\ StopHealthCheck({e.connection : e \in expired})
       /\ sessionMap' = [s \in ConnIds |->
                            IF \E e \in expired : e.sessionId = s THEN NULL ELSE sessionMap[s]]
       /\ disconnectedSessions' = disconnectedSessions \ expired
       /\ UNCHANGED <<envVars, conns, connections, connVars, asyncVars, reqVars, roomVars,
                      msgVars>>

\* The setInterval callback of Connections.startCleanup
Sweep ==
    LET expired == {e \in disconnectedSessions : now >= e.expiresAt}
    IN /\ StopHealthCheck({e.connection : e \in expired})
       /\ sessionMap' = [s \in ConnIds |->
                            IF \E e \in expired : e.sessionId = s THEN NULL ELSE sessionMap[s]]
       /\ disconnectedSessions' = disconnectedSessions \ expired
       /\ UNCHANGED <<envVars, conns, connections, connVars, asyncVars, reqVars, roomVars, msgVars>>

\* Time passes, up to the end of the modelled clock.
TickTo(limit) ==
    /\ now < limit
    /\ now' = now + TickMs
    /\ UNCHANGED <<recovery, wsPhase, tokens, emitted, closeCalls, registryVars, connVars, healthVars,
                   asyncVars, reqVars, roomVars, msgVars>>

Tick == TickTo(MaxTime)

(***************************************************************************)
(* Token refresh: the rate-limit predicates of Connection and the          *)
(* session.refresh method registered by the Helios constructor.            *)
(***************************************************************************)
Max(a, b) == IF a >= b THEN a ELSE b

\* A faulty canRefreshToken that needs more than ttl / 2 to have passed.
CanRefreshTokenStrict(c) ==
    IF sessionId[c] = NULL \/ ~recovery
    THEN FALSE
    ELSE LET timeSinceLastRefresh == now - lastTokenRefresh[c]
             minRefreshInterval == TTL \div 2
         IN timeSinceLastRefresh > minRefreshInterval

\* Connection.canRefreshToken()
CanRefreshToken(c) ==
    IF sessionId[c] = NULL \/ ~recovery
    THEN FALSE
    ELSE LET timeSinceLastRefresh == now - lastTokenRefresh[c]
             minRefreshInterval == TTL \div 2
         IN timeSinceLastRefresh >= minRefreshInterval

\* Connection.getTimeUntilRefreshAllowed()
GetTimeUntilRefreshAllowed(c) ==
    IF ~recovery
    THEN 0
    ELSE LET timeSinceLastRefresh == now - lastTokenRefresh[c]
             minRefreshInterval == TTL \div 2
         IN Max(0, minRefreshInterval - timeSinceLastRefresh)

\* what the session.refresh handler returns
RefreshReply(error, waitMs) == [error |-> error, waitMs |-> waitMs, at |-> now]

\* A session.refresh request arrives on handle w: Connection.handleRequest
\* runs the handler up to `await this.sessionManager.refresh(connection)`.
RefreshRequest(w) ==
    /\ wsPhase[w] = "open"
    /\ connections[w] # NULL
    /\ LET connection == connections[w]
       IN /\ Len(refreshing[connection]) + Len(refreshReplies[connection]) < MaxRefresh
          /\ IF sessionId[connection] = NULL
             THEN /\ refreshReplies' = [refreshReplies EXCEPT ![connection] =
                                           Append(@, RefreshReply("No active session", 0))]
                  /\ UNCHANGED refreshing
             ELSE IF ~CanRefreshToken(connection)
                  THEN /\ refreshReplies' = [refreshReplies EXCEPT ![connection] =
                              Append(@, RefreshReply("Rate limit exceeded",
                                                     GetTimeUntilRefreshAllowed(connection)))]
                       /\ UNCHANGED refreshing
                  ELSE /\ refreshing' = [refreshing EXCEPT ![connection] =
                              Append(@, MintToken(connection, sessionId[connection], now))]
                       /\ UNCHANGED refreshReplies
    /\ UNCHANGED <<envVars, registryVars, connVars, healthVars, verifying, creating, reqVars,
                   roomVars, msgVars>>

\* A faulty refresh that rotates the session id of the connection.
RefreshDoneRotates(c, i) ==
    /\ i \in DOMAIN refreshing[c]
    /\ LET newToken == refreshing[c][i]
       IN /\ refreshing' = [refreshing EXCEPT ![c] =
                               SubSeq(@, 1, i - 1) \o SubSeq(@, i + 1, Len(@))]
          /\ lastTokenRefresh' = [lastTokenRefresh EXCEPT ![c] = now]
          /\ sessionId' = [sessionId EXCEPT ![c] = (@ % MaxWs) + 1]
          /\ emitted' = EmitTo(connWs[c], "session:refreshed", sessionId[c], "")
          /\ tokens' = IF wsPhase[connWs[c]] = "open" THEN tokens \cup {newToken} ELSE tokens
          /\ refreshReplies' = [refreshReplies EXCEPT ![c] = Append(@, RefreshReply("", 0))]
    /\ UNCHANGED <<recovery, now, wsPhase, closeCalls, registryVars, connWs, connState,
                   data, pendingRequests, healthVars, verifying, creating, reqVars, roomVars, msgVars>>

\* The i-th pending `await this.sessionManager.refresh(connection)` of
\* connection c resolves: the rest of the session.refresh handler.
RefreshDone(c, i) ==
    /\ i \in DOMAIN refreshing[c]
    /\ LET newToken == refreshing[c][i]
       IN /\ refreshing' = [refreshing EXCEPT ![c] =
                               SubSeq(@, 1, i - 1) \o SubSeq(@, i + 1, Len(@))]
          /\ lastTokenRefresh' = [lastTokenRefresh EXCEPT ![c] = now]
          /\ emitted' = EmitTo(connWs[c], "session:refreshed", sessionId[c], "")
          /\ tokens' = IF wsPhase[connWs[c]] = "open" THEN tokens \cup {newToken} ELSE tokens
          /\ refreshReplies' = [refreshReplies EXCEPT ![c] = Append(@, RefreshReply("", 0))]
    /\ UNCHANGED <<recovery, now, wsPhase, closeCalls, registryVars, connWs, connState, sessionId,
                   data, pendingRequests, healthVars, verifying, creating, reqVars, roomVars, msgVars>>

(***************************************************************************)
(* Health check: the ping loop of a connection.                            *)
(***************************************************************************)
\* The setInterval callback of startHealthCheck: Connection.sendPing().  The
\* pong timeout of the previous ping is due before the next tick, so it has
\* fired or was cancelled by then.
PingTick(c) ==
    /\ c \in conns
    /\ pingIntervalId[c] # NULL
    /\ now >= pingDueAt[c]
    /\ pingTimeoutId[c] = NULL
    /\ pingDueAt' = [pingDueAt EXCEPT ![c] = now + HealthInterval]
    /\ LET w == connWs[c]
       IN IF connState[c] # "OPEN" \/ wsPhase[w] # "open" \/ closeCalls[w] # NoClose
          THEN UNCHANGED <<closeCalls, lastPingAt, pingTimeoutId, nextTimerId>>
          ELSE IF missedPongs[c] >= MaxMissed
               THEN /\ closeCalls' = [closeCalls EXCEPT ![w] = PingTimeoutClose]
                    /\ UNCHANGED <<lastPingAt, pingTimeoutId, nextTimerId>>
               ELSE /\ lastPingAt' = [lastPingAt EXCEPT ![c] = now]
                    /\ pingTimeoutId' = [pingTimeoutId EXCEPT ![c] = nextTimerId]
                    /\ nextTimerId' = nextTimerId + 1
                    /\ UNCHANGED closeCalls
    /\ UNCHANGED <<recovery, now, wsPhase, tokens, emitted, registryVars, connVars,
                   missedPongs, lastPongAt, pingIntervalId, asyncVars, reqVars, roomVars, msgVars>>

\* A faulty pong timeout that never counts a miss.
PongTimeoutForgets(c) ==
    /\ c \in conns
    /\ pingTimeoutId[c] # NULL
    /\ now >= lastPingAt[c] + PongTimeoutMs
    /\ pingTimeoutId' = [pingTimeoutId EXCEPT ![c] = NULL]
    /\ UNCHANGED <<envVars, registryVars, connVars, missedPongs, lastPingAt, lastPongAt,
                   pingIntervalId, pingDueAt, nextTimerId, asyncVars, reqVars, roomVars, msgVars>>

\* A faulty pong timeout that counts a miss whether or not a pong came.
PongTimeoutAlways(c) ==
    /\ c \in conns
    /\ pingTimeoutId[c] # NULL
    /\ now >= lastPingAt[c] + PongTimeoutMs
    /\ pingTimeoutId' = [pingTimeoutId EXCEPT ![c] = NULL]
    /\ missedPongs' = [missedPongs EXCEPT ![c] = @ + 1]
    /\ UNCHANGED <<envVars, registryVars, connVars, lastPingAt, lastPongAt, pingIntervalId,
                   pingDueAt, nextTimerId, asyncVars, reqVars, roomVars, msgVars>>

\* The one-shot pong timeout of the last ping fires.
PongTimeout(c) ==
    /\ c \in conns
    /\ pingTimeoutId[c] # NULL
    /\ now >= lastPingAt[c] + PongTimeoutMs
    /\ pingTimeoutId' = [pingTimeoutId EXCEPT ![c] = NULL]
    /\ missedPongs' = [missedPongs EXCEPT ![c] =
                           IF lastPongAt[c] < lastPingAt[c] THEN @ + 1 ELSE @]
    /\ UNCHANGED <<envVars, registryVars, connVars, lastPingAt, lastPongAt, pingIntervalId,
                   pingDueAt, nextTimerId, asyncVars, reqVars, roomVars, msgVars>>

\* A faulty handlePong that leaves the pong timeout running.
HandlePongKeepsTimer(w) ==
    /\ wsPhase[w] = "open"
    /\ LET connection == connections[w]
       IN IF connection = NULL
          THEN UNCHANGED <<lastPongAt, missedPongs>>
          ELSE /\ lastPongAt' = [lastPongAt EXCEPT ![connection] = now]
               /\ missedPongs' = [missedPongs EXCEPT ![connection] = 0]
    /\ UNCHANGED <<envVars, registryVars, connVars, lastPingAt, pingIntervalId, pingDueAt,
                   pingTimeoutId, nextTimerId, asyncVars, reqVars, roomVars, msgVars>>

\* A faulty handlePong that keeps the count of missed pongs.
HandlePongKeepsCount(w) ==
    /\ wsPhase[w] = "open"
    /\ LET connection == connections[w]
       IN IF connection = NULL
          THEN UNCHANGED <<lastPongAt, pingTimeoutId>>
          ELSE /\ lastPongAt' = [lastPongAt EXCEPT ![connection] = now]
               /\ pingTimeoutId' = [pingTimeoutId EXCEPT ![connection] = NULL]
    /\ UNCHANGED <<envVars, registryVars, connVars, missedPongs, lastPingAt, pingIntervalId,
                   pingDueAt, nextTimerId, asyncVars, reqVars, roomVars, msgVars>>

\* Helios.handlePong(ws) and Connection.handlePong()
HandlePong(w) ==
    /\ wsPhase[w] = "open"
    /\ LET connection == connections[w]
       IN IF connection = NULL
          THEN UNCHANGED <<lastPongAt, missedPongs, pingTimeoutId>>
          ELSE /\ lastPongAt' = [lastPongAt EXCEPT ![connection] = now]
               /\ missedPongs' = [missedPongs EXCEPT ![connection] = 0]
               /\ pingTimeoutId' = [pingTimeoutId EXCEPT ![connection] = NULL]
    /\ UNCHANGED <<envVars, registryVars, connVars, lastPingAt, pingIntervalId, pingDueAt,
                   nextTimerId, asyncVars, reqVars, roomVars, msgVars>>

(***************************************************************************)
(* Specifications.  Every specification starts from a server right after   *)
(* its constructor, with session recovery enabled or disabled.             *)
(***************************************************************************)
Init ==
    /\ recovery \in BOOLEAN
    /\ parseMode = "strict"
    /\ now = StartTime
    /\ InitRegistry
    /\ InitRooms

\* the same server, constructed early or late on the clock
InitAnyTime ==
    /\ recovery \in BOOLEAN
    /\ parseMode = "strict"
    /\ now \in {StartTime, MaxTime}
    /\ InitRegistry
    /\ InitRooms

MintedTokens ==
    {MintToken(c, c, StartTime + k * TickMs) :
         c \in ConnIds, k \in 0 .. ((HealthMaxTime - StartTime) \div TickMs)}

\* Spec: the registry.  Transports open (with no token, a bad token or a token
\* some client holds) and close, awaited signatures and verifications complete,
\* time passes and the sweep runs.
Next ==
    \/ \E w \in WS : \E tok \in {NoToken, BadToken} \cup tokens : HandleOpen(w, tok)
    \/ \E w \in WS : \E tok \in {BadToken} \cup tokens : RecoverSession(w, tok)
    \/ \E c \in ConnIds : \E tok \in MintedTokens : CreateSessionDone(c, tok)
    \/ \E w \in WS : HandleClose(w)
    \/ Sweep
    \/ Tick

Spec == Init /\ [][Next]_vars

\* SpecSweep: the registry while the clock advances and the sweep's interval
\* timer keeps firing; nothing obliges a client to reconnect.
FairSweep ==
    /\ WF_vars(Sweep)
    /\ WF_vars(Tick)

\* one client connects and may come back on a second handle with its token
NextSweep ==
    \/ HandleOpen(1, NoToken)
    \/ \E tok \in tokens : HandleOpen(2, tok)
    \/ \E tok \in tokens : RecoverSession(2, tok)
    \/ \E c \in ConnIds : \E tok \in MintedTokens : CreateSessionDone(c, tok)
    \/ \E w \in WS : HandleClose(w)
    \/ Sweep
    \/ Tick

SpecSweep == Init /\ [][NextSweep]_vars /\ FairSweep

\* SpecRequests: the request tracker.  The application issues requests, the
\* peers answer with Responses carrying any request id, request timers fire,
\* transports close and sessions are recovered.
NextRequests ==
    \/ \E w \in WS : \E tok \in {NoToken} \cup tokens : HandleOpen(w, tok)
    \/ \E w \in WS : \E tok \in tokens : RecoverSession(w, tok)
    \/ \E c \in ConnIds : \E tok \in MintedTokens : CreateSessionDone(c, tok)
    \/ \E w \in WS : HandleClose(w)
    \/ \E c \in ConnIds : ConnectionRequest(c)
    \/ \E w \in WS : \E r \in ReqIds : HandleResponse(w, r)
    \/ \E r \in ReqIds : RequestTimeout(r)

SpecRequests == Init /\ [][NextRequests]_vars

\* SpecRequestsLive: the request tracker while time passes and the sweep runs.
\* The event loop runs every timer that is due and every continuation of a
\* settled await, so request timers, the sweep, the clock and the awaited
\* signatures and verifications are weakly fair.  Nothing obliges a peer to
\* answer, to reconnect or to close.
NextRequestsLive ==
    \/ NextRequests
    \/ Sweep
    \/ Tick

FairRequests ==
    /\ \A r \in ReqIds : WF_vars(RequestTimeout(r))
    /\ WF_vars(Sweep)
    /\ WF_vars(Tick)
    /\ WF_vars(\E c \in ConnIds : \E tok \in MintedTokens : CreateSessionDone(c, tok))
    /\ WF_vars(\E w \in WS : \E tok \in MintedTokens : RecoverSession(w, tok))

SpecRequestsLive == Init /\ [][NextRequestsLive]_vars /\ FairRequests

\* SpecSession: what a connection carries across a disconnection.  Method
\* handlers store data, clients join and leave the public room, requests are
\* issued, transports close and sessions are recovered.
NextSession ==
    \/ \E w \in WS : \E tok \in {NoToken} \cup tokens : HandleOpen(w, tok)
    \/ \E w \in WS : \E tok \in tokens : RecoverSession(w, tok)
    \/ \E c \in ConnIds : \E tok \in MintedTokens : CreateSessionDone(c, tok)
    \/ \E w \in WS : HandleClose(w)
    \/ \E w \in WS : \E k \in DataKeys : \E v \in DataValues : HandleRequest(w, k, v)
    \/ \E w \in WS : connections[w] # NULL /\ Subscribe(connections[w], <<"lobby">>)
    \/ \E w \in WS : connections[w] # NULL /\ Unsubscribe(connections[w], <<"lobby">>)
    \/ \E c \in ConnIds : ConnectionRequest(c)

SpecSession == InitAnyTime /\ [][NextSession]_vars

\* SpecHealth: the health check of one connection (the loops of different
\* connections share nothing).  The first transport opens without a token and
\* closes, ping ticks and pong timeouts fire when due, the peer answers with
\* pongs (or does not), and the clock runs long enough for a dead peer to be
\* detected.
NextHealth ==
    \/ HandleOpen(1, NoToken)
    \/ \E c \in ConnIds : \E tok \in MintedTokens : CreateSessionDone(c, tok)
    \/ \E w \in WS : HandleClose(w)
    \/ \E c \in ConnIds : PingTick(c)
    \/ \E c \in ConnIds : PongTimeout(c)
    \/ \E w \in WS : HandlePong(w)
    \/ TickTo(HealthMaxTime)

SpecHealth == Init /\ [][NextHealth]_vars

\* SpecDeadPeer: the health check when no peer ever answers a ping.
NextDeadPeer ==
    \/ HandleOpen(1, NoToken)
    \/ \E c \in ConnIds : \E tok \in MintedTokens : CreateSessionDone(c, tok)
    \/ \E w \in WS : HandleClose(w)
    \/ \E c \in ConnIds : PingTick(c)
    \/ \E c \in ConnIds : PongTimeout(c)
    \/ TickTo(HealthMaxTime)

SpecDeadPeer == Init /\ [][NextDeadPeer]_vars

\* SpecRooms: the RoomManager alone, used by every connection of a server on
\* which all MaxWs transports are open (no session recovery).
\* Token refresh on one connection opened without a token
NextRefresh ==
    \/ HandleOpen(1, NoToken)
    \/ \E c \in ConnIds, tok \in MintedTokens : CreateSessionDone(c, tok)
    \/ \E w \in WS : HandleClose(w)
    \/ \E w \in WS : RefreshRequest(w)
    \/ \E c \in ConnIds, i \in 1 .. MaxRefresh : RefreshDone(c, i)
    \/ Tick

SpecRefresh == Init /\ [][NextRefresh]_vars

\* The life of one session: a connection opens without a token, refreshes its
\* token, closes, and comes back on a second handle with a token it holds.
NextIdentity ==
    \/ HandleOpen(1, NoToken)
    \/ \E tok \in tokens : HandleOpen(2, tok)
    \/ \E tok \in tokens : RecoverSession(2, tok)
    \/ \E c \in ConnIds : \E tok \in MintedTokens : CreateSessionDone(c, tok)
    \/ \E w \in WS : HandleClose(w)
    \/ \E w \in WS : RefreshRequest(w)
    \/ \E c \in ConnIds, i \in 1 .. MaxRefresh : RefreshDone(c, i)
    \/ Tick

SpecIdentity == Init /\ [][NextIdentity]_vars

InitOpenConnections ==
    /\ recovery = FALSE
    /\ parseMode = "strict"
    /\ now = StartTime
    /\ wsPhase = [w \in WS |-> "open"]
    /\ tokens = {}
    /\ emitted = [w \in WS |-> <<>>]
    /\ closeCalls = [w \in WS |-> NoClose]
    /\ conns = ConnIds
    /\ connections = [w \in WS |-> w]
    /\ sessionMap = [s \in ConnIds |-> NULL]
    /\ disconnectedSessions = {}
    /\ connWs = [c \in ConnIds |-> c]
    /\ connState = [c \in ConnIds |-> "OPEN"]
    /\ sessionId = [c \in ConnIds |-> NULL]
    /\ lastTokenRefresh = [c \in ConnIds |-> StartTime]
    /\ data = [c \in ConnIds |-> {}]
    /\ pendingRequests = [c \in ConnIds |-> {}]
    /\ missedPongs = [c \in ConnIds |-> 0]
    /\ lastPingAt = [c \in ConnIds |-> NULL]
    /\ lastPongAt = [c \in ConnIds |-> StartTime]
    /\ pingIntervalId = [c \in ConnIds |-> c]
    /\ pingTimeoutId = [c \in ConnIds |-> NULL]
    /\ pingDueAt = [c \in ConnIds |-> StartTime + HealthInterval]
    /\ nextTimerId = MaxWs + 1
    /\ verifying = {}
    /\ creating = {}
    /\ refreshing = [c \in ConnIds |-> <<>>]
    /\ refreshReplies = [c \in ConnIds |-> <<>>]
    /\ nextReq = 1
    /\ req = [r \in ReqIds |-> NoRequest]
    /\ listeners = {}
    /\ InitMessages

\* every handle open with its connection, the application's rooms declared
InitAllOpen ==
    /\ InitOpenConnections
    /\ InitRooms

\* a RoomManager in which nothing is declared yet
InitNoRooms ==
    /\ publicRooms = {}
    /\ roomPatterns = <<>>
    /\ connectionSubscriptions = EmptyMap
    /\ topicConnections = EmptyMap
    /\ validating = {}
    /\ subscribeReturn = NoReturn
    /\ declareReturn = "this"
    /\ broadcastReturn = NoBroadcast

\* Rooms are declared in any order, valid or not, while one connection asks
\* to subscribe.
NextDeclare ==
    \/ \E d \in DeclInputs : Declare(d.pattern, d.isString, d.type, d.validator)
    \/ \E t \in Topics : Subscribe(1, t)

\* every handle open with its connection, no room declared
InitDeclare ==
    /\ InitOpenConnections
    /\ InitNoRooms

SpecDeclare == InitDeclare /\ [][NextDeclare]_vars

\* A connection receives messages and closes; the pre-dispatch emissions
\* resolve in any order.
NextOrdering ==
    \/ HandleOpen(1, NoToken)
    \/ \E c \in ConnIds, tok \in MintedTokens : CreateSessionDone(c, tok)
    \/ \E w \in WS : WebsocketMessage(w)
    \/ \E w \in WS, m \in 1 .. MaxMsgs : HandleMessage(w, m)
    \/ \E w \in WS, m \in 1 .. MaxMsgs, c \in ConnIds : ConnectionHandleMessage(w, m, c)
    \/ \E w \in WS : HandleClose(w)

SpecOrdering == Init /\ [][NextOrdering]_vars

\* A client presents its token on a second transport while its first one is
\* still open, and both transports deliver messages and close.
NextRebind ==
    \/ HandleOpen(1, NoToken)
    \/ \E c \in ConnIds, tok \in MintedTokens : CreateSessionDone(c, tok)
    \/ \E tok \in tokens : HandleOpen(2, tok)
    \/ \E tok \in MintedTokens : RecoverSession(2, tok)
    \/ \E w \in WS : WebsocketMessage(w)
    \/ \E w \in WS, m \in 1 .. MaxMsgs : HandleMessage(w, m)
    \/ \E w \in WS, m \in 1 .. MaxMsgs, c \in ConnIds : ConnectionHandleMessage(w, m, c)
    \/ \E w \in WS : HandleClose(w)

SpecRebind == Init /\ [][NextRebind]_vars

\* The application pings its connections by hand while their pongs arrive.
NextPing ==
    \/ \E w \in WS : HandleClose(w)
    \/ \E c \in ConnIds : HeliosPing(c)
    \/ OnPongReceived
    \/ \E w \in WS : PongReceived(w)
    \/ \E p \in PingIds : ManualPingTimeout(p)

SpecPing == InitAllOpen /\ [][NextPing]_vars

\* a server constructed with any parse mode
InitParse ==
    /\ recovery \in BOOLEAN
    /\ parseMode \in ParseModes
    /\ now = StartTime
    /\ InitRegistry
    /\ InitRooms

\* Connections receive frames that are not protocol messages.
NextParse ==
    \/ HandleOpen(1, NoToken)
    \/ \E c \in ConnIds, tok \in MintedTokens : CreateSessionDone(c, tok)
    \/ \E w \in WS : HandleClose(w)
    \/ \E w \in WS : \E frame \in MalformedFrames : HandleMalformed(w, frame)

SpecParse == InitParse /\ [][NextParse]_vars

\* Connections open and close while the application sends on them.
NextSend ==
    \/ \E w \in WS : HandleOpen(w, NoToken)
    \/ \E c \in ConnIds, tok \in MintedTokens : CreateSessionDone(c, tok)
    \/ \E w \in WS : HandleClose(w)
    \/ \E c \in ConnIds : ConnectionSend(c)

SpecSend == Init /\ [][NextSend]_vars

\* every connection has subscribed to some of the declared rooms: the two
\* indexes as #addSubscription builds them
InitSubscribed ==
    /\ InitOpenConnections
    /\ publicRooms = {<<"lobby">>}
    /\ roomPatterns = <<RoomPattern(<<"user", "*">>, 1)>>
    /\ \E subscriptions \in [ConnIds -> SUBSET {<<"lobby">>, <<"user", "1">>}] :
           /\ connectionSubscriptions =
                  [c \in {x \in ConnIds : subscriptions[x] # {}} |-> subscriptions[c]]
           /\ topicConnections =
                  [t \in UNION {subscriptions[c] : c \in ConnIds} |->
                      {c \in ConnIds : t \in subscriptions[c]}]
    /\ validating = {}
    /\ subscribeReturn = NoReturn
    /\ declareReturn = "this"
    /\ broadcastReturn = NoBroadcast

\* Connections unsubscribe, some close, and the application broadcasts.
NextBroadcast ==
    \/ \E c \in ConnIds : \E t \in Topics : Unsubscribe(c, t)
    \/ \E w \in WS : HandleClose(w)
    \/ \E p \in BroadcastPatterns : Broadcast(p)

SpecBroadcast == InitSubscribed /\ [][NextBroadcast]_vars

\* a subscribe call made for a client's request, which an open connection
\* delivers
SubscribeRequest(c, t) ==
    /\ connState[c] = "OPEN"
    /\ Subscribe(c, t)

\* Connections subscribe while they are open, close and are cleaned up;
\* nothing but cleanup removes a pair.
NextCleanup ==
    \/ \E w \in WS : HandleClose(w)
    \/ \E c \in ConnIds : \E t \in Topics : SubscribeRequest(c, t)
    \/ \E c \in ConnIds : \E t \in Topics : \E allowed \in {"true", "false", "throw"} :
           SubscribeValidated(c, t, allowed)
    \/ \E c \in ConnIds : Cleanup(c)

SpecCleanup == InitAllOpen /\ [][NextCleanup]_vars

NextRooms ==
    \/ \E c \in ConnIds : \E t \in Topics : Subscribe(c, t)
    \/ \E c \in ConnIds : \E t \in Topics : \E allowed \in {"true", "false", "throw"} :
           SubscribeValidated(c, t, allowed)
    \/ \E c \in ConnIds : \E t \in Topics : Unsubscribe(c, t)
    \/ \E c \in ConnIds : Cleanup(c)

SpecRooms == InitAllOpen /\ [][NextRooms]_vars


(***************************************************************************)
(* Properties.                                                             *)
(***************************************************************************)

\* C1: the two indexes of the RoomManager agree: a connection is in the set of
\* a topic exactly when the topic is in the set of the connection, after any
\* interleaving of subscribe, unsubscribe and cleanup.
IndexesAgree ==
    \A c \in ConnIds \cup DOMAIN connectionSubscriptions :
        \A t \in Topics \cup DOMAIN topicConnections :
            (c \in DOMAIN connectionSubscriptions /\ t \in connectionSubscriptions[c])
            <=> (t \in DOMAIN topicConnections /\ c \in topicConnections[t])

\* a topic shared by two connections, one of which holds a second topic
IndexesAgreeWitness ==
    \E t \in DOMAIN topicConnections : \E c \in topicConnections[t] :
        /\ Cardinality(topicConnections[t]) >= 2
        /\ c \in DOMAIN connectionSubscriptions
        /\ Cardinality(connectionSubscriptions[c]) >= 2

\* C2: a request is settled at most once -- by its response, by its timeout or
\* by the teardown of its connection -- and its entry is in the pending map of
\* its connection exactly while it is unsettled.
SettledAtMostOnce ==
    \A r \in ReqIds :
        /\ req[r].resolves + req[r].rejects <= 1
        /\ (req[r].outcome = "pending") <=> (req[r].resolves + req[r].rejects = 0 /\ req[r].conn # NULL)
        /\ \A c \in ConnIds :
               r \in pendingRequests[c] <=> (req[r].conn = c /\ req[r].outcome = "pending")

\* one request was settled by its timeout and another one by a response
SettledAtMostOnceWitness ==
    \E r1, r2 \in ReqIds :
        /\ req[r1].outcome = "TIMEOUT" /\ req[r1].rejects = 1
        /\ req[r2].outcome = "RESPONSE" /\ req[r2].resolves = 1

\* C3: pending requests never leak: every request that is pending is settled
\* in the end -- by a response, by its timeout or by the teardown of its
\* connection (at the latest when the sweep finds its session expired).
\* A request is past every such occasion once its connection has left the
\* registry: no handle indexes it and no disconnected entry holds it.
PendingRequestsSettle ==
    \A r \in ReqIds :
        (/\ req[r].outcome = "pending"
         /\ \A w \in WS : connections[w] # req[r].conn
         /\ \A e \in disconnectedSessions : e.connection # req[r].conn)
        ~> (req[r].outcome # "pending")

\* C4: when a transport closes with session recovery disabled, the pending map
\* of its connection ends empty and every request that was pending has been
\* rejected exactly once, with ConnectionClosedError.
CloseRejectsAll ==
    [][\A w \in WS :
          (wsPhase[w] = "open" /\ wsPhase'[w] = "closed" /\ connections[w] # NULL /\ ~recovery)
          => LET c == connections[w]
             IN /\ pendingRequests'[c] = {}
                /\ \A r \in pendingRequests[c] :
                       /\ req'[r].rejects = 1
                       /\ req'[r].resolves = 0
                       /\ req'[r].outcome = "CONNECTION_CLOSED"
                /\ \A r \in ReqIds \ pendingRequests[c] : req'[r] = req[r]]_vars

\* a connection closed with every request of the model pending on it
CloseRejectsAllWitness ==
    /\ ~recovery
    /\ \E c \in conns :
           /\ connState[c] = "CLOSED"
           /\ pendingRequests[c] = {}
           /\ \A r \in ReqIds : req[r].conn = c /\ req[r].outcome = "CONNECTION_CLOSED"

\* C5 (as amended): with session recovery disabled, a request whose transport
\* closes while it is pending and its timer is armed is rejected once with
\* CONNECTION_CLOSED and its timer is cancelled; a request rejected with
\* CONNECTION_CLOSED never changes again (no TIMEOUT follows); and no request
\* is rejected with TIMEOUT while its connection is absent from the registry.
CloseBeatsTimeout ==
    [][/\ \A w \in WS :
              (wsPhase[w] = "open" /\ wsPhase'[w] = "closed" /\ connections[w] # NULL /\ ~recovery)
              => \A r \in pendingRequests[connections[w]] :
                     req[r].timer
                     => /\ req'[r].outcome = "CONNECTION_CLOSED"
                        /\ req'[r].rejects = 1
                        /\ ~req'[r].timer
       /\ \A r \in ReqIds :
              req[r].outcome = "CONNECTION_CLOSED" => req'[r] = req[r]
       /\ \A r \in ReqIds :
              (req[r].outcome = "pending" /\ connections[connWs[req[r].conn]] = NULL)
              => req'[r].outcome # "TIMEOUT"]_vars

\* a request rejected by the close of its transport while another connection
\* still waits for an answer
CloseBeatsTimeoutWitness ==
    /\ ~recovery
    /\ \E r1, r2 \in ReqIds :
           /\ req[r1].outcome = "CONNECTION_CLOSED" /\ ~req[r1].timer
           /\ req[r2].outcome = "pending" /\ req[r2].conn # req[r1].conn

\* C5 as stated, whatever the session-recovery setting.
CloseBeatsTimeoutAlways ==
    [][/\ \A w \in WS :
              (wsPhase[w] = "open" /\ wsPhase'[w] = "closed" /\ connections[w] # NULL)
              => \A r \in pendingRequests[connections[w]] :
                     req[r].timer
                     => /\ req'[r].outcome = "CONNECTION_CLOSED"
                        /\ req'[r].rejects = 1
                        /\ ~req'[r].timer
       /\ \A r \in ReqIds :
              req[r].outcome = "CONNECTION_CLOSED" => req'[r] = req[r]
       /\ \A r \in ReqIds :
              (req[r].outcome = "pending" /\ connections[connWs[req[r].conn]] = NULL)
              => req'[r].outcome # "TIMEOUT"]_vars

\* C6: Connection.reconnect replaces the transport handle and sets the state
\* to OPEN; the sessionId, the data map, the room subscriptions and the
\* pendingRequests map (and the requests in it) are as they were before.  The
\* id of a connection is its name in the model, so it cannot change.
ReconnectKeepsConnection ==
    [][\A c \in conns :
          connWs'[c] # connWs[c]
          => /\ c \in conns'
             /\ connWs'[c] \in WS
             /\ connState'[c] = "OPEN"
             /\ sessionId'[c] = sessionId[c]
             /\ data'[c] = data[c]
             /\ pendingRequests'[c] = pendingRequests[c]
             /\ \A r \in pendingRequests[c] : req'[r] = req[r]
             /\ connectionSubscriptions' = connectionSubscriptions
             /\ topicConnections' = topicConnections]_vars

\* a connection that moved to another handle with data, a room subscription
\* and a pending request
ReconnectKeepsConnectionWitness ==
    \E c \in conns :
        /\ connWs[c] # c
        /\ connections[connWs[c]] = c
        /\ connState[c] = "OPEN"
        /\ data[c] # {}
        /\ pendingRequests[c] # {}
        /\ c \in DOMAIN connectionSubscriptions

\* C7: Connection.reconnect resets the health-check state (missedPongs = 0,
\* lastPingAt = null, lastPongAt = now, timers cancelled) and restarts the
\* loop: the ping interval timer is non-null and differs from the previous one.
ReconnectResetsHealth ==
    [][\A c \in conns :
          connWs'[c] # connWs[c]
          => /\ missedPongs'[c] = 0
             /\ lastPingAt'[c] = NULL
             /\ lastPongAt'[c] = now
             /\ pingTimeoutId'[c] = NULL
             /\ pingIntervalId'[c] # NULL
             /\ pingIntervalId'[c] # pingIntervalId[c]]_vars

\* C8: the close of the transport of a connection that has a sessionId, with
\* session recovery enabled, removes the handle from the transport index,
\* inserts a disconnected entry with expiresAt = now + ttl, sets the state to
\* CLOSED and leaves data, room subscriptions and pendingRequests unchanged.
CloseKeepsSession ==
    [][\A w \in WS :
          (/\ wsPhase[w] = "open" /\ wsPhase'[w] = "closed"
           /\ connections[w] # NULL
           /\ recovery /\ sessionId[connections[w]] # NULL)
          => LET c == connections[w]
             IN /\ connections'[w] = NULL
                /\ \A v \in WS : connections'[v] # c
                /\ [sessionId |-> sessionId[c], connection |-> c, expiresAt |-> now + TTL]
                       \in disconnectedSessions'
                /\ \A e \in disconnectedSessions' :
                       e.sessionId = sessionId[c] => e.expiresAt = now + TTL
                /\ connState'[c] = "CLOSED"
                /\ data'[c] = data[c]
                /\ pendingRequests'[c] = pendingRequests[c]
                /\ \A r \in pendingRequests[c] : req'[r] = req[r]
                /\ connectionSubscriptions' = connectionSubscriptions
                /\ topicConnections' = topicConnections]_vars

\* a disconnected session whose connection holds data, a room subscription and
\* a pending request
CloseKeepsSessionWitness ==
    \E e \in disconnectedSessions :
        /\ connState[e.connection] = "CLOSED"
        /\ e.expiresAt = now + TTL
        /\ data[e.connection] # {}
        /\ pendingRequests[e.connection] # {}
        /\ e.connection \in DOMAIN connectionSubscriptions

\* C9: a connection is reachable through at most one transport handle, and
\* every handle of the transport index maps to a connection whose current
\* transport is that handle.
OneHandlePerConnection ==
    /\ \A w1, w2 \in WS :
           (connections[w1] # NULL /\ connections[w1] = connections[w2]) => w1 = w2
    /\ \A w \in WS : connections[w] # NULL => connWs[connections[w]] = w

\* a recovered connection, indexed under the handle that presented its token
\* while the handle it was created on is still open
OneHandlePerConnectionWitness ==
    \E w \in WS :
        /\ connections[w] # NULL
        /\ connections[w] # w
        /\ wsPhase[connections[w]] = "open"

\* C10: a connection that has an entry among the disconnected sessions is not
\* indexed under any transport handle.
DisconnectedNotIndexed ==
    \A e \in disconnectedSessions : \A w \in WS : connections[w] # e.connection

\* a session that was recovered onto another handle and disconnected again
DisconnectedNotIndexedWitness ==
    \E e \in disconnectedSessions :
        /\ connWs[e.connection] # e.connection
        /\ connState[e.connection] = "CLOSED"

\* C11: once now >= expiresAt of the disconnected entry of a connection,
\* findBySessionId returns null for its session (so Connections.reconnect
\* returns null and rebinds nothing), whether or not the sweep has run.
ExpiredSessionNotFound ==
    \A e \in disconnectedSessions :
        now >= e.expiresAt => FindBySessionId(e.sessionId) = NULL

\* C12: when recoverSession runs for a valid token naming a session that was
\* disconnected less than ttl ago, the original connection is rebound to the
\* new handle: no connection is created, its id (the one in the token), its
\* sessionId and its data are unchanged, it is found under the new handle, and
\* session:recovered carries the original sessionId.
RecoveryRebinds ==
    [][\A w \in WS : \A tok \in tokens :
          (/\ <<w, tok>> \in verifying /\ <<w, tok>> \notin verifying'
           /\ Verify(tok, now)
           /\ \E e \in disconnectedSessions : e.sessionId = tok.sessionId /\ now < e.expiresAt)
          => LET c == (CHOOSE e \in disconnectedSessions : e.sessionId = tok.sessionId).connection
             IN /\ conns' = conns
                /\ c = tok.connectionId
                /\ connections'[w] = c
                /\ connWs'[c] = w
                /\ sessionId[c] = tok.sessionId
                /\ sessionId'[c] = sessionId[c]
                /\ data'[c] = data[c]
                /\ emitted'[w] = Append(emitted[w], [topic |-> "session:recovered",
                                                     sessionId |-> sessionId[c],
                                                     reason |-> ""])]_vars

\* a connection that stored data, lost its transport and was recovered on
\* another handle, which received session:recovered
RecoveryRebindsWitness ==
    \E w \in WS :
        /\ connections[w] # NULL
        /\ connections[w] # w
        /\ wsPhase[connections[w]] = "closed"
        /\ data[connections[w]] # {}
        /\ emitted[w] # <<>>
        /\ emitted[w][Len(emitted[w])].topic = "session:recovered"

\* C13: when recovery fails (the token fails verification, or no recoverable
\* session exists), a new connection is created and indexed under the handle,
\* session:recovery-failed is the first event written to the handle (before
\* session:created), and the new connection gets a sessionId, which is indexed
\* in the session map when its token is signed.
FailedRecoveryDowngrades ==
    [][/\ \A w \in WS : \A tok \in {BadToken} \cup tokens :
              (/\ <<w, tok>> \in verifying /\ <<w, tok>> \notin verifying'
               /\ IF Verify(tok, now) THEN FindBySessionId(tok.sessionId) = NULL ELSE TRUE)
              => /\ w \notin conns /\ w \in conns'
                 /\ connections'[w] = w
                 /\ connWs'[w] = w
                 /\ emitted[w] = <<>>
                 /\ Len(emitted'[w]) = 1
                 /\ emitted'[w][1].topic = "session:recovery-failed"
                 /\ sessionId'[w] # NULL
                 /\ \E t \in creating' : t[1] = w /\ t[2].sessionId = sessionId'[w]
       /\ \A c \in ConnIds : \A tok \in MintedTokens :
              (<<c, tok>> \in creating /\ <<c, tok>> \notin creating')
              => /\ sessionMap'[sessionId[c]] = c
                 /\ emitted'[connWs[c]] = Append(emitted[connWs[c]],
                                                 [topic |-> "session:created",
                                                  sessionId |-> sessionId[c],
                                                  reason |-> ""])
       /\ \A w \in WS : \A i \in 1 .. Len(emitted'[w]) :
              emitted'[w][i].topic = "session:recovery-failed" => i = 1]_vars

\* a handle whose recovery failed: it received session:recovery-failed, then
\* session:created, and its new connection is in the session map
FailedRecoveryDowngradesWitness ==
    \E w \in WS :
        /\ Len(emitted[w]) >= 2
        /\ emitted[w][1].topic = "session:recovery-failed"
        /\ emitted[w][2].topic = "session:created"
        /\ sessionId[w] # NULL
        /\ sessionMap[sessionId[w]] = w

\* C14: when recovery is attempted with the token of a session whose ttl has
\* elapsed (its connection is disconnected and its entry is expired or swept),
\* the reason carried by session:recovery-failed contains "expired".
ExpiredRecoveryReason ==
    [][\A w \in WS : \A tok \in tokens :
          (/\ <<w, tok>> \in verifying /\ <<w, tok>> \notin verifying'
           /\ \A v \in WS : connections[v] # tok.connectionId
           /\ \A e \in disconnectedSessions : e.sessionId = tok.sessionId => now >= e.expiresAt
           /\ emitted'[w] # emitted[w]
           /\ emitted'[w][Len(emitted'[w])].topic = "session:recovery-failed")
          => emitted'[w][Len(emitted'[w])].reason = "Session expired"]_vars

\* C15: every connection created by open handling has its health-check loop
\* started (its ping interval timer is set), whether it is created directly
\* or by the fallback of a failed recovery.
NewConnectionHealthStarted ==
    [][\A c \in conns' \ conns : pingIntervalId'[c] # NULL]_vars

\* C16: when the peer never answers and the connection stays OPEN, every pong
\* timeout that fires adds one to missedPongs; a ping tick with
\* missedPongs < maxMissed sends a ping, and the first ping tick with
\* missedPongs >= maxMissed closes the transport with code 1000 and reason
\* "Ping timeout" and sends no ping; no ping is sent after that.
DeadPeerDetected ==
    [][\A c \in conns :
          LET w == connWs[c]
          IN /\ (pingTimeoutId[c] # NULL /\ pingTimeoutId'[c] = NULL /\ connState'[c] = "OPEN")
                => missedPongs'[c] = missedPongs[c] + 1
             /\ (/\ pingDueAt[c] # NULL /\ pingDueAt'[c] # NULL /\ pingDueAt'[c] # pingDueAt[c]
                 /\ connState[c] = "OPEN" /\ wsPhase[w] = "open" /\ closeCalls[w] = NoClose)
                => IF missedPongs[c] >= MaxMissed
                   THEN /\ closeCalls'[w] = PingTimeoutClose
                        /\ lastPingAt'[c] = lastPingAt[c]
                        /\ pingTimeoutId'[c] = NULL
                   ELSE /\ closeCalls'[w] = NoClose
                        /\ lastPingAt'[c] = now
                        /\ pingTimeoutId'[c] # NULL
             /\ closeCalls[w] # NoClose => lastPingAt'[c] = lastPingAt[c]
             /\ missedPongs'[c] <= MaxMissed]_vars

\* the health check closed the transport of a peer that missed maxMissed pongs
DeadPeerDetectedWitness ==
    \E c \in conns :
        /\ missedPongs[c] = MaxMissed
        /\ closeCalls[connWs[c]] = PingTimeoutClose

\* C17: missedPongs is above 0 only while the last ping is unanswered, so a
\* peer whose every ping is answered before its timeout fires has
\* missedPongs = 0 at every ping tick; from missedPongs = 0 only a pong
\* timeout that fires can raise it, the health check does not close the
\* transport, and the state stays OPEN while the transport does.
HealthyPeerStaysOpen ==
    [][\A c \in conns :
          LET w == connWs[c]
              timeoutFired == /\ pingTimeoutId[c] # NULL /\ pingTimeoutId'[c] = NULL
                              /\ lastPongAt'[c] = lastPongAt[c]
                              /\ connState'[c] = connState[c]
          IN /\ missedPongs'[c] > 0 => (lastPingAt'[c] # NULL /\ lastPongAt'[c] < lastPingAt'[c])
             /\ (missedPongs[c] = 0 /\ ~timeoutFired)
                => /\ missedPongs'[c] = 0
                   /\ closeCalls'[w] = closeCalls[w]
                   /\ (connState[c] = "OPEN" /\ wsPhase'[w] = wsPhase[w])
                      => connState'[c] = "OPEN"]_vars

\* a peer that answered its third ping (and the ones before, or the count
\* would not be 0 with the transport still open)
HealthyPeerStaysOpenWitness ==
    \E c \in conns :
        /\ lastPingAt[c] # NULL
        /\ lastPingAt[c] >= StartTime + 3 * HealthInterval
        /\ lastPongAt[c] >= lastPingAt[c]
        /\ missedPongs[c] = 0
        /\ connState[c] = "OPEN"
        /\ closeCalls[connWs[c]] = NoClose

RefreshPredicates ==
    [][/\ \A c \in conns' :
             /\ CanRefreshToken(c)' <=>
                   (sessionId'[c] # NULL /\ 2 * (now' - lastTokenRefresh'[c]) >= TTL)
             /\ recovery =>
                   /\ 2 * GetTimeUntilRefreshAllowed(c)' >= TTL - 2 * (now' - lastTokenRefresh'[c])
                   /\ GetTimeUntilRefreshAllowed(c)' >= 0
                   /\ \/ GetTimeUntilRefreshAllowed(c)' = 0
                      \/ 2 * GetTimeUntilRefreshAllowed(c)' = TTL - 2 * (now' - lastTokenRefresh'[c])
       /\ \A c \in conns' \ conns : ~CanRefreshToken(c)']_vars

\* a connection with a session exactly ttl / 2 after its last refresh, which
\* was itself a refresh and not the creation
RefreshPredicatesWitness ==
    \E c \in conns :
        /\ sessionId[c] # NULL
        /\ now - lastTokenRefresh[c] = TTL \div 2
        /\ CanRefreshToken(c)
        /\ GetTimeUntilRefreshAllowed(c) = 0
        /\ \E k \in DOMAIN refreshReplies[c] : refreshReplies[c][k].error = ""

\* C20: every session.refresh that returns success does so at least ttl / 2
\* after the connection's previous successful refresh, or after its creation
\* when it is the first, however the handlers of concurrent requests
\* interleave; a refused attempt returns "Rate limit exceeded" with a
\* positive waitMs and mints no token.
RefreshesSpaced ==
    [][\A c \in conns :
          Len(refreshReplies'[c]) > Len(refreshReplies[c]) =>
              LET reply == refreshReplies'[c][Len(refreshReplies'[c])]
              IN /\ reply.error = "" => 2 * (now - lastTokenRefresh[c]) >= TTL
                 /\ (sessionId[c] # NULL /\ 2 * (now - lastTokenRefresh[c]) < TTL)
                    => /\ reply.error = "Rate limit exceeded"
                       /\ reply.waitMs > 0
                       /\ tokens' = tokens
                       /\ refreshing'[c] = refreshing[c]]_vars

\* C21: a Connection's sessionId is assigned at most once: once it is not null
\* no step changes it (token creation, token refresh, close handling,
\* reconnect), and every token minted for the connection, refreshed ones
\* included, carries that sessionId and the connection's id.
SessionIdAssignedOnce ==
    [][/\ \A c \in conns : sessionId[c] # NULL => sessionId'[c] = sessionId[c]
       /\ \A c \in conns' :
             /\ \A i \in DOMAIN refreshing'[c] :
                   /\ refreshing'[c][i].sessionId = sessionId'[c]
                   /\ refreshing'[c][i].connectionId = c
             /\ \A tok \in tokens' :
                   tok.connectionId = c => tok.sessionId = sessionId'[c]]_vars

\* a connection that refreshed its token, closed and was recovered on another
\* handle, with the created and the refreshed token both held by the client
SessionIdAssignedOnceWitness ==
    \E c \in conns :
        /\ sessionId[c] # NULL
        /\ connWs[c] # c
        /\ connState[c] = "OPEN"
        /\ \E k \in DOMAIN refreshReplies[c] : refreshReplies[c][k].error = ""
        /\ \E t1, t2 \in tokens : t1 # t2 /\ t1.connectionId = c /\ t2.connectionId = c

\* C22: a token minted at time t0 (milliseconds) with ttl tau verifies exactly
\* while the current time is before t0 + tau, and a token that was not signed
\* with the secret never verifies.
TokenValidUntilExpiry ==
    /\ ~Verify(BadToken, now)
    /\ \A c \in conns : \A k \in 0 .. MaxTicks :
          LET t0 == StartTime + k * TickMs
              tok == MintToken(c, sessionId[c], t0)
          IN (tok \in tokens /\ t0 <= now) => (Verify(tok, now) <=> now < t0 + TTL)

\* C23: deny by default: subscribe for a topic that is not an exact public
\* room and matches no declared protected pattern returns success = false
\* with the error "Room not declared (deny by default)", emits nothing and
\* leaves both subscription indexes unchanged; no pair with such a topic is
\* ever added.
DenyByDefault ==
    [][/\ (/\ subscribeReturn' # subscribeReturn
           /\ subscribeReturn'.topic \notin publicRooms
           /\ \A i \in 1 .. Len(roomPatterns) :
                 ~Match(subscribeReturn'.topic, roomPatterns[i].pattern))
          => /\ ~subscribeReturn'.success
             /\ subscribeReturn'.error = "Room not declared (deny by default)"
             /\ ~subscribeReturn'.event
             /\ connectionSubscriptions' = connectionSubscriptions
             /\ topicConnections' = topicConnections
             /\ validating' = validating
       /\ \A t \in DOMAIN topicConnections' : \A c \in topicConnections'[t] :
             (t \notin DOMAIN topicConnections \/ c \notin topicConnections[t])
             => (t \in publicRooms \/ \E i \in 1 .. Len(roomPatterns) :
                                         Match(t, roomPatterns[i].pattern))]_vars

\* a subscribe to the undeclared topic "news" was refused while other
\* subscriptions exist
DenyByDefaultWitness ==
    /\ subscribeReturn.topic = <<"news">>
    /\ ~subscribeReturn.success
    /\ subscribeReturn.error = "Room not declared (deny by default)"
    /\ DOMAIN topicConnections # {}

\* C24: for a topic resolved to a protected room the (connection, topic) pair
\* is added to the indexes only when the room's validator, run for that
\* connection and topic, answered truthy; a validator answering false yields
\* "Permission denied", one that throws or rejects yields "Validator error",
\* and in both cases the indexes are unchanged and room:subscribed is not
\* emitted.
ValidatorGuardsProtected ==
    [][\A c \in ConnIds : \A t \in Topics :
          LET protected == /\ t \notin publicRooms
                           /\ \E i \in 1 .. Len(roomPatterns) : Match(t, roomPatterns[i].pattern)
              added == /\ t \in DOMAIN topicConnections' /\ c \in topicConnections'[t]
                       /\ ~(t \in DOMAIN topicConnections /\ c \in topicConnections[t])
              r == subscribeReturn'
          IN /\ (protected /\ added)
                => (<<c, t>> \in validating /\ r.topic = t /\ r.validator = "true")
             /\ (<<c, t>> \in validating /\ <<c, t>> \notin validating')
                => /\ r.topic = t
                   /\ r.validator \in {"true", "false", "throw"}
                   /\ r.validator = "true"
                      => (r.success /\ r.event /\ c \in topicConnections'[t]
                          /\ t \in connectionSubscriptions'[c])
                   /\ r.validator # "true"
                      => /\ ~r.success
                         /\ ~r.event
                         /\ r.error = IF r.validator = "false" THEN "Permission denied"
                                      ELSE "Validator error"
                         /\ connectionSubscriptions' = connectionSubscriptions
                         /\ topicConnections' = topicConnections]_vars

\* a validator threw for one connection while another connection is
\* subscribed to the same protected topic
ValidatorGuardsProtectedWitness ==
    /\ subscribeReturn.topic = <<"user", "1">>
    /\ subscribeReturn.error = "Validator error"
    /\ <<"user", "1">> \in DOMAIN topicConnections

\* C25: room resolution for a topic gives the exact public room when one is
\* declared (a configuration of type public, for which subscribe runs no
\* validator); otherwise the matching protected pattern of highest
\* specificity, and among equally specific matching patterns the one declared
\* first; and no room when nothing matches, whatever the order of the declare
\* calls.
ResolutionBySpecificity ==
    \A t \in Topics :
        LET matching == {i \in 1 .. Len(roomPatterns) : Match(t, roomPatterns[i].pattern)}
            found == FindRoomConfig(t)
        IN IF t \in publicRooms
           THEN found.type = "public" /\ found.pattern = t
           ELSE IF matching = {}
                THEN found = NoRoom
                ELSE \E i \in matching :
                        /\ found.type = "protected"
                        /\ found.pattern = roomPatterns[i].pattern
                        /\ \A j \in matching :
                              \/ roomPatterns[i].specificity > roomPatterns[j].specificity
                              \/ /\ roomPatterns[i].specificity = roomPatterns[j].specificity
                                 /\ roomPatterns[i].declared <= roomPatterns[j].declared

\* a more specific pattern declared after a less specific one, both matching
\* the same topic, resolved to the later one
ResolutionBySpecificityWitness ==
    \E i, j \in 1 .. Len(roomPatterns) :
        /\ i < j
        /\ roomPatterns[i].declared > roomPatterns[j].declared
        /\ roomPatterns[i].specificity > roomPatterns[j].specificity
        /\ Match(<<"user", "1">>, roomPatterns[i].pattern)
        /\ Match(<<"user", "1">>, roomPatterns[j].pattern)
        /\ <<"user", "1">> \notin publicRooms
        /\ FindRoomConfig(<<"user", "1">>).pattern = roomPatterns[i].pattern
        /\ <<1, <<"user", "1">>>> \in validating

BroadcastCounts ==
    [][broadcastReturn'.n # broadcastReturn.n =>
          LET p == broadcastReturn'.topic
              subscribedTo(c) == {t \in Topics :
                                     \/ c \in DOMAIN connectionSubscriptions
                                        /\ t \in connectionSubscriptions[c]
                                     \/ t \in DOMAIN topicConnections
                                        /\ c \in topicConnections[t]}
              targets == {c \in conns : \E t \in subscribedTo(c) : t = p \/ Match(t, p)}
              open == {c \in targets : connState[c] = "OPEN"}
              event == [topic |-> p, sessionId |-> NULL, reason |-> ""]
          IN /\ broadcastReturn'.targets = Cardinality(targets)
             /\ broadcastReturn'.sent = Cardinality(open)
             /\ \A c \in open : emitted'[connWs[c]] = Append(emitted[connWs[c]], event)
             /\ \A w \in WS : (\A c \in open : connWs[c] # w) => emitted'[w] = emitted[w]
             /\ connectionSubscriptions' = connectionSubscriptions
             /\ topicConnections' = topicConnections]_vars

\* a pattern broadcast reached two targets, one of them closed, and wrote one
\* event to the open one only
BroadcastCountsWitness ==
    /\ broadcastReturn.topic = <<"**">>
    /\ broadcastReturn.targets = 2
    /\ broadcastReturn.sent = 1
    /\ \E c \in conns :
           /\ connState[c] = "OPEN"
           /\ c \in DOMAIN connectionSubscriptions
           /\ connectionSubscriptions[c] = {<<"lobby">>, <<"user", "1">>}
           /\ Len(emitted[connWs[c]]) = 1
    /\ \E c \in conns :
           /\ connState[c] = "CLOSED"
           /\ c \in DOMAIN connectionSubscriptions
           /\ emitted[connWs[c]] = <<>>

\* C28: any send on a Connection (send, emit, json, text, binary) attempted
\* while the connection's state is not OPEN fails with a CONNECTION_CLOSED
\* error and writes nothing to the transport.
SendFailsFast ==
    [][(sendReturn'.n # sendReturn.n /\ sendReturn'.state # "OPEN")
          => /\ sendReturn'.result = "CONNECTION_CLOSED"
             /\ emitted' = emitted]_vars

\* C29: once a Connection is destroyed, by close handling with session
\* recovery disabled or by the sweep expiring its session, no (connection,
\* topic) pair referencing it remains in either index of the RoomManager.
DestroyedNotSubscribed ==
    \A c \in conns :
        (/\ connState[c] = "CLOSED"
         /\ \A w \in WS : connections[w] # c
         /\ \A e \in disconnectedSessions : e.connection # c)
        => /\ c \notin DOMAIN connectionSubscriptions
           /\ \A t \in DOMAIN topicConnections : c \notin topicConnections[t]

\* C30: for one Connection, messages are handed to connection.handleMessage
\* in the order the transport delivered them, and a message delivered before
\* the close event is dispatched before close handling tears the connection
\* down, whatever the order in which the pre-dispatch emissions complete.
SerialOrdering ==
    /\ \A c \in ConnIds :
           /\ \A i, j \in DOMAIN dispatched[c] :
                  (i < j /\ dispatched[c][i].ws = dispatched[c][j].ws)
                  => dispatched[c][i].msg < dispatched[c][j].msg
           /\ \A i \in DOMAIN dispatched[c] : dispatched[c][i].state = "OPEN"
    /\ \A w \in WS :
           wsPhase[w] = "closed"
           => /\ \A e \in emitting : e.ws # w
              /\ \A c \in ConnIds :
                     Cardinality({i \in DOMAIN dispatched[c] : dispatched[c][i].ws = w})
                     \in {0, delivered[w]}

\* C31: when the timeout timer of a ping fires, missedPongs is incremented by
\* exactly one if lastPongAt < lastPingAt and is left unchanged otherwise;
\* missedPongs grows in no other step, so a ping whose pong arrived before
\* the timeout (which cancels the timer) is never counted as missed.
MissCountedOnTimeout ==
    [][\A c \in conns :
          /\ (/\ pingTimeoutId[c] # NULL
              /\ pingTimeoutId'[c] = NULL
              /\ pingIntervalId'[c] = pingIntervalId[c]
              /\ lastPongAt'[c] = lastPongAt[c])
             => missedPongs'[c] = IF lastPongAt[c] < lastPingAt[c]
                                  THEN missedPongs[c] + 1
                                  ELSE missedPongs[c]
          /\ missedPongs'[c] > missedPongs[c]
             => /\ missedPongs'[c] = missedPongs[c] + 1
                /\ pingTimeoutId[c] # NULL
                /\ pingTimeoutId'[c] = NULL
                /\ lastPongAt[c] < lastPingAt[c]]_vars

\* a connection that has answered one ping and has missed the next
MissCountedOnTimeoutWitness ==
    \E c \in conns :
        /\ missedPongs[c] = 1
        /\ pingTimeoutId[c] = NULL
        /\ lastPingAt[c] # NULL
        /\ StartTime < lastPongAt[c]
        /\ lastPongAt[c] < lastPingAt[c]

\* C32: handling a pong sets lastPongAt to now, resets missedPongs to 0 from
\* any prior value, and cancels the pending pong timeout, so that
\* pingTimeoutId is null afterwards.
PongResets ==
    [][\A w \in WS :
          (HandlePong(w) /\ connections[w] # NULL)
          => /\ lastPongAt'[connections[w]] = now
             /\ missedPongs'[connections[w]] = 0
             /\ pingTimeoutId'[connections[w]] = NULL]_vars

\* a pong was handled after the timeout of the last ping was due
PongResetsWitness ==
    \E c \in conns :
        /\ lastPingAt[c] # NULL
        /\ lastPongAt[c] = now
        /\ now >= lastPingAt[c] + PongTimeoutMs
        /\ missedPongs[c] = 0
        /\ pingTimeoutId[c] = NULL
        /\ connState[c] = "OPEN"

\* C33: cleanup(connection) removes every (connection, topic) pair of that
\* connection from both indexes, deletes the topic sets that become empty,
\* and leaves the subscriptions of every other connection unchanged.
CleanupRemovesAll ==
    [][\A c \in ConnIds :
          Cleanup(c)
          => /\ c \notin DOMAIN connectionSubscriptions'
             /\ \A t \in DOMAIN topicConnections' :
                    /\ c \notin topicConnections'[t]
                    /\ topicConnections'[t] # {}
             /\ \A d \in ConnIds \ {c} :
                    /\ (d \in DOMAIN connectionSubscriptions')
                       <=> (d \in DOMAIN connectionSubscriptions)
                    /\ d \in DOMAIN connectionSubscriptions
                       => connectionSubscriptions'[d] = connectionSubscriptions[d]
                    /\ \A t \in Topics :
                           (t \in DOMAIN topicConnections' /\ d \in topicConnections'[t])
                           <=> (t \in DOMAIN topicConnections /\ d \in topicConnections[t])]_vars

\* the connection that subscribed last, and alone, to user:1 has been cleaned
\* up: its topic set is gone while another connection keeps its lobby
CleanupRemovesAllWitness ==
    /\ subscribeReturn.success
    /\ subscribeReturn.topic = <<"user", "1">>
    /\ <<"user", "1">> \notin DOMAIN topicConnections
    /\ <<"lobby">> \in DOMAIN topicConnections
    /\ Cardinality(DOMAIN connectionSubscriptions) = 1

\* C39: if cleanup(connection) runs, the connection being destroyed, while a
\* subscribe(connection, topic) call is suspended in its validator, then
\* after the subscribe call completes no (connection, topic) pair of that
\* connection is present in either index.
CleanupBeatsSubscribe ==
    [][\A c \in ConnIds : \A t \in Topics :
          (/\ <<c, t>> \in validating
           /\ <<c, t>> \notin validating'
           /\ connState[c] = "CLOSED"
           /\ \A w \in WS : connections[w] # c
           /\ c \notin DOMAIN connectionSubscriptions
           /\ \A u \in DOMAIN topicConnections : c \notin topicConnections[u])
          => /\ c \notin DOMAIN connectionSubscriptions'
             /\ \A u \in DOMAIN topicConnections' : c \notin topicConnections'[u]]_vars

\* C34: each run of the sweep removes from the session index and from the
\* disconnected set every disconnected entry with expiresAt <= now, leaves
\* the entries with expiresAt > now untouched, and never removes the session
\* index entry of a Connection that is bound to a transport; and with the
\* sweep and the clock running, every disconnected entry whose expiry the
\* clock reaches is eventually gone, by the sweep or by a reconnect.
SweepRemovesExpired ==
    /\ [][Sweep =>
             /\ \A e \in disconnectedSessions :
                    IF e.expiresAt <= now
                    THEN e \notin disconnectedSessions' /\ sessionMap'[e.sessionId] = NULL
                    ELSE e \in disconnectedSessions'
                         /\ sessionMap'[e.sessionId] = sessionMap[e.sessionId]
             /\ \A sid \in ConnIds :
                    (sessionMap[sid] # NULL /\ \E w \in WS : connections[w] = sessionMap[sid])
                    => sessionMap'[sid] = sessionMap[sid]]_vars
    /\ \A sid \in ConnIds :
           (\E e \in disconnectedSessions : e.sessionId = sid /\ e.expiresAt <= MaxTime)
           ~> (/\ \A e \in disconnectedSessions : e.sessionId # sid \/ e.expiresAt > MaxTime
               /\ \/ sessionMap[sid] = NULL
                  \/ \E w \in WS : connections[w] # NULL /\ sessionId[connections[w]] = sid)

\* the sweep has removed an expired session at the instant of its expiry and
\* has kept a younger one
SweepRemovesExpiredWitness ==
    /\ \E c \in conns :
           /\ sessionId[c] # NULL
           /\ connState[c] = "CLOSED"
           /\ sessionMap[sessionId[c]] = NULL
           /\ \A e \in disconnectedSessions : e.connection # c
           /\ now = StartTime + TTL
    /\ wsPhase[2] = "closed"

\* C35: the state of a Connection changes only along OPEN -> CLOSING ->
\* CLOSED, which close handling runs through in one synchronous step, and the
\* only transition back to OPEN is a successful reconnect, which also swaps
\* the transport of the connection.
StateLifecycle ==
    [][\A c \in ConnIds :
          connState'[c] # connState[c]
          => \/ /\ c \notin conns
                /\ connState'[c] = "OPEN"
             \/ /\ connState[c] = "OPEN"
                /\ connState'[c] = "CLOSED"
                /\ wsPhase[connWs[c]] = "open"
                /\ wsPhase'[connWs[c]] = "closed"
             \/ /\ connState[c] = "CLOSED"
                /\ connState'[c] = "OPEN"
                /\ connWs'[c] # connWs[c]
                /\ connections'[connWs'[c]] = c
                /\ \E tok \in tokens : <<connWs'[c], tok>> \in verifying \ verifying']_vars

\* a connection that was closed is open again on another handle
StateLifecycleWitness ==
    \E c \in conns :
        /\ connState[c] = "OPEN"
        /\ connWs[c] # c
        /\ wsPhase[c] = "closed"
        /\ connections[connWs[c]] = c

\* C36: in passthrough parse mode a frame that fails protocol parsing is
\* dispatched as in permissive mode but without the JSON attempt: a text
\* frame is routed as a text event and a binary frame as a binary event; in
\* strict mode the protocol error is propagated.
PassthroughRoutes ==
    \A w \in WS : \A i \in DOMAIN routed[w] :
        /\ parseMode = "strict" => routed[w][i].event = "throw"
        /\ parseMode = "passthrough"
           => routed[w][i].event = IF routed[w][i].frame = "binary" THEN "binary" ELSE "text"

\* C37: a manual Helios.ping(connection) resolves when a pong of that same
\* connection arrives before its timeout, whatever pongs of other
\* connections arrive first and whatever other manual pings are in flight,
\* and neither the completion nor the timeout of a ping removes the pong
\* listeners of other pings or of the application.
ManualPingResolves ==
    /\ \A p \in PingIds : pings[p].ponged => pings[p].status = "resolved"
    /\ \A p \in PingIds : pings[p].status = "pending" => p \in pongListeners

\* C38: a pending request lives only on the Connection that issued it: a
\* Response received on another connection, on a handle with no connection,
\* or on a connection that is CLOSING or CLOSED settles nothing.
ResponseStaysOnConnection ==
    [][\A w \in WS : \A r \in ReqIds :
          (/\ HandleResponse(w, r)
           /\ req[r].outcome = "pending"
           /\ \/ connections[w] = NULL
              \/ connections[w] # req[r].conn
              \/ connState[connections[w]] \in {"CLOSING", "CLOSED"})
          => /\ req'[r] = req[r]
             /\ listeners' = listeners
             /\ pendingRequests' = pendingRequests]_vars

\* C40: when a session is rebound while its Connection is still bound to a
\* live old transport, the old handle leaves the transport index and only the
\* new handle maps to the Connection; after that a message on the old handle
\* finds no Connection and is dropped, and a close of the old handle changes
\* neither a Connection nor the registry.
RebindDropsOldHandle ==
    [][/\ \A w \in WS, tok \in MintedTokens, c \in ConnIds :
             (/\ RecoverSession(w, tok)
              /\ c \in conns
              /\ connWs[c] # w
              /\ connections[connWs[c]] = c
              /\ wsPhase[connWs[c]] = "open"
              /\ connWs'[c] = w)
             => /\ connections'[connWs[c]] = NULL
                /\ \A w2 \in WS : connections'[w2] = c <=> w2 = w
       /\ \A w \in WS, m \in 1 .. MaxMsgs :
             (HandleMessage(w, m) /\ \A c \in conns : connWs[c] # w)
             => /\ emitting' \subseteq emitting
                /\ UNCHANGED <<registryVars, connVars, dispatched>>
       /\ \A w \in WS :
             (HandleClose(w) /\ \A c \in conns : connWs[c] # w)
             => UNCHANGED <<registryVars, connVars>>]_vars

\* the session was rebound to handle 2 while handle 1 was open, and a message
\* that handle 1 delivered was dropped without reaching the connection
RebindDropsOldHandleWitness ==
    \E c \in conns :
        /\ connWs[c] = 2
        /\ connections[2] = c
        /\ connState[c] = "OPEN"
        /\ wsPhase[1] = "open"
        /\ connections[1] = NULL
        /\ delivered[1] >= 1
        /\ \A e \in emitting : e.ws # 1
        /\ \A i \in 1 .. Len(dispatched[c]) : dispatched[c][i].ws # 1

=============================================================================
